---- MODULE Spec2Model ----
(***************************************************************************)
(* Verification model of the ADF container codec, the reflective value     *)
(* engine and the typed-value codec of rust-mm-tools.                      *)
(*                                                                         *)
(* Streams are byte sequences (values 0..255); stream positions are        *)
(* 0-based as in std::io::Seek, sequences are 1-based as in TLA+.          *)
(***************************************************************************)
EXTENDS Integers, Sequences, FiniteSets, TLC

VARIABLES
    adf,        \* the in-memory AdfFile of the running tool
    disk,       \* the bytes of the file on disk (<<>> when none)
    mode,       \* "mem": adf is live; "disk": a file was written; "failed": a read failed
    origLen,    \* length of the file adf was parsed from (0: adf was built or edited)
    pristine,   \* TRUE while adf is exactly what the last parse returned
    context,    \* the AdfReflectionContext of the tool
    tree,       \* <<v>>: the value tree the last read_instance returned (<<>>: none)
    tw,         \* the typed-codec writer session
    tr,         \* the typed-codec reader session
    gate,       \* the Mutex around the buffer of the shared instance
    threads,    \* the operations running on the shared instance, one per thread
    info        \* the AdfTypeInfo constants of the typed-codec type last looked at

fileVars == <<adf, disk, mode, origLen, pristine>>
reflVars == <<context, tree>>
typedVars == <<tw, tr>>
gateVars == <<gate, threads>>

vars == <<fileVars, reflVars, typedVars, gateVars, info>>

----------------------------------------------------------------------------
(* Bounds of the model *)

MaxInstances == 2
MaxGrowth == 8

----------------------------------------------------------------------------
(* Integer and byte helpers *)

Max(a, b) == IF a >= b THEN a ELSE b

RECURSIVE BitAnd(_, _)
BitAnd(x, y) ==
    IF x = 0 \/ y = 0 THEN 0
    ELSE (x % 2) * (y % 2) + 2 * BitAnd(x \div 2, y \div 2)

\* no alignment at all
align_none(value, alignment) == value

\* common/mod.rs: (value + align) & !align with align = alignment - 1
align(value, alignment) ==
    LET al == alignment - 1
    IN  (value + al) - BitAnd(value + al, al)

Zeros(n) == [i \in 1..n |-> 0]
Fill(n, c) == [i \in 1..n |-> c]

LE16(n) == <<n % 256, (n \div 256) % 256>>
LE32(n) == <<n % 256, (n \div 256) % 256, (n \div 65536) % 256, (n \div 16777216) % 256>>
LE64(n) == LE32(n) \o <<0, 0, 0, 0>>

\* position (1-based) of the first element of s satisfying equality with x, 0 if none
RECURSIVE IndexFrom(_, _, _)
IndexFrom(s, x, i) ==
    IF i > Len(s) THEN 0
    ELSE IF s[i] = x THEN i
    ELSE IndexFrom(s, x, i + 1)

IndexOf(s, x) == IndexFrom(s, x, 1)

\* sum of s[lo..hi], by halving
RECURSIVE SumBytes(_, _, _)
SumBytes(s, lo, hi) ==
    IF lo > hi THEN 0
    ELSE IF lo = hi THEN s[lo]
    ELSE SumBytes(s, lo, (lo + hi) \div 2) + SumBytes(s, (lo + hi) \div 2 + 1, hi)

\* mm_hashing::hash_little32 (Jenkins lookup3 "little"): the source of the
\* function is not part of the tree; it is modelled as a fixed function of
\* the bytes with a small range, so that distinct names may collide.
hash_little32(bytes) == (48879 + 257 * SumBytes(bytes, 1, Len(bytes)) + Len(bytes)) % 65536

----------------------------------------------------------------------------
(* Type model (adf.rs: AdfType, AdfMember, AdfEnum, AdfMemberValue) *)

Scalar == 0
Structure == 1
Pointer == 2
Array == 3
InlineArray == 4
String == 5
Recursive == 6
Bitfield == 7
Enumeration == 8
StringHash == 9
Deferred == 10

Signed == 0
Unsigned == 1
Float == 2

InstanceAlignment == 128

Type(prim, size, al, hash, name, st, eth, elen, members, enums) ==
    [primitive |-> prim, size |-> size, alignment |-> al, type_hash |-> hash,
     name |-> name, flags |-> 0, scalar_type |-> st, element_type_hash |-> eth,
     element_length |-> elen, members |-> members, enumerations |-> enums]

Member(name, hash, al, byte, bit, value) ==
    [name |-> name, type_hash |-> hash, alignment |-> al, byte |-> byte, bit |-> bit,
     value |-> value]

UninitializedValue == [tag |-> 0]
InlineValue(v) == [tag |-> 1, v |-> v]
InstanceValue(inst) == [tag |-> 2, inst |-> inst]

\* AdfInstance: id stands for the address of the Arc allocation (identity),
\* alignment for buffer.alignment() of the AVec.
Instance(id, name, hash, buffer, al) ==
    [id |-> id, name |-> name, type_hash |-> hash, buffer |-> buffer, alignment |-> al]

\* names as byte strings
NameA == <<97>>
NameB == <<98>>

TU32 == Type(Scalar, 4, 4, 13, <<117, 51, 50>>, Unsigned, 0, 0, <<>>, <<>>)
TU16 == Type(Scalar, 2, 2, 12, <<117, 49, 54>>, Unsigned, 0, 0, <<>>, <<>>)
TU8 == Type(Scalar, 1, 1, 11, <<117, 56>>, Unsigned, 0, 0, <<>>, <<>>)
TStr == Type(String, 8, 8, 20, <<83>>, Signed, 0, 0, <<>>, <<>>)
TPtr == Type(Pointer, 8, 8, 21, <<80>>, Signed, 12, 0, <<>>, <<>>)
TArr == Type(Array, 16, 8, 22, <<65>>, Signed, 12, 0, <<>>, <<>>)
TEnum ==
    Type(Enumeration, 4, 4, 23, <<69>>, Signed, 0, 0, <<>>,
         <<[name |-> NameA, value |-> 0], [name |-> <<69, 49>>, value |-> 1]>>)

\* an instance that only a member default refers to
DefaultTarget == Instance(0, NameA, 13, Zeros(4), 4)

TPair ==
    Type(Structure, 8, 4, 24, <<80, 97, 105, 114>>, Signed, 0, 0,
         <<Member(<<120>>, 13, 4, 0, 0, InlineValue(7)),
           Member(NameA, 13, 4, 4, 0, InstanceValue(DefaultTarget)),
           Member(<<122>>, 13, 4, 4, 0, UninitializedValue)>>,
         <<>>)

TLong(n) == Type(Scalar, 1, 1, 25, Fill(n, 76), Unsigned, 0, 0, <<>>, <<>>)

----------------------------------------------------------------------------
(* Seekable writer: [buf, pos, strings, instances]; strings and instances   *)
(* are the two AdfReferenceCollector pools of one AdfFile write.            *)

\* Cursor write: overwrite at pos, extending (zero filled) as needed
Overwrite(buf, pos, bytes) ==
    IF bytes = <<>> THEN buf
    ELSE IF pos >= Len(buf) THEN buf \o Zeros(pos - Len(buf)) \o bytes
    ELSE SubSeq(buf, 1, pos) \o bytes \o SubSeq(buf, pos + Len(bytes) + 1, Len(buf))

put(w, bytes) ==
    [w EXCEPT !.buf = Overwrite(w.buf, w.pos, bytes), !.pos = w.pos + Len(bytes)]

seek(w, p) == [w EXCEPT !.pos = p]

\* WriterExt::pad and WriterExt::align
pad(w, padding) == put(w, Zeros(padding))
walign(w, alignment) == pad(w, align(w.pos, alignment) - w.pos)

\* NullString write: the bytes followed by one 0x00
NullStringBytes(s) == s \o <<0>>

\* an identity that finds no string in the pool
StringIdentity_fresh(pool, s) == 0

\* AdfReferenceIdentity<NullString>::identity: position of an equal string
StringIdentity(pool, s) == IndexOf(pool, s)

\* AdfReference<NullString>::write_options
WriteStringRef(w, s) ==
    IF StringIdentity(w.strings, s) > 0
    THEN put(w, LE64(StringIdentity(w.strings, s) - 1))
    ELSE put([w EXCEPT !.strings = Append(@, s)], LE64(Len(w.strings)))

\* AdfReferenceEq for Arc<AdfInstance>: Arc::ptr_eq
InPool(pool, inst) == \E i \in DOMAIN pool : pool[i].id = inst.id

\* AdfReference<Arc<AdfInstance>>::write_options: the identity is the name hash
WriteInstanceRef(w, inst) ==
    put([w EXCEPT !.instances = IF InPool(@, inst) THEN @ ELSE Append(@, inst)],
        LE64(hash_little32(inst.name)))

\* AdfMemberValue (binrw magic tags 0, 1, 2)
WriteMemberValue(w, v) ==
    IF v.tag = 0 THEN put(w, LE32(0) \o LE64(0))
    ELSE IF v.tag = 1 THEN put(w, LE32(1) \o LE64(v.v))
    ELSE WriteInstanceRef(put(w, LE32(2)), v.inst)

\* AdfMember: name, type_hash, alignment, offsets (B24 byte, B8 bit), value
WriteMember(w, m) ==
    WriteMemberValue(
        put(WriteStringRef(w, m.name),
            LE32(m.type_hash) \o LE32(m.alignment) \o LE32(m.byte + 16777216 * m.bit)),
        m.value)

RECURSIVE WriteMembers(_, _, _)
WriteMembers(w, ms, i) ==
    IF i > Len(ms) THEN w ELSE WriteMembers(WriteMember(w, ms[i]), ms, i + 1)

\* AdfEnum: name, value
WriteEnum(w, e) == put(WriteStringRef(w, e.name), LE32(e.value))

RECURSIVE WriteEnums(_, _, _)
WriteEnums(w, es, i) ==
    IF i > Len(es) THEN w ELSE WriteEnums(WriteEnum(w, es[i]), es, i + 1)

\* AdfType (binrw derive): fixed fields, then the members of a Structure, the
\* entries of an Enumeration (each a u32-prefixed LengthVec), or 4 bytes of padding
WriteType(w, t) ==
    LET w1 == put(w, LE32(t.primitive) \o LE32(t.size) \o LE32(t.alignment)
                     \o LE32(t.type_hash))
        w2 == put(WriteStringRef(w1, t.name),
                  LE16(t.flags) \o LE16(t.scalar_type) \o LE32(t.element_type_hash)
                  \o LE32(t.element_length))
    IN  IF t.primitive = Structure
        THEN WriteMembers(put(w2, LE32(Len(t.members))), t.members, 1)
        ELSE IF t.primitive = Enumeration
        THEN WriteEnums(put(w2, LE32(Len(t.enumerations))), t.enumerations, 1)
        ELSE pad(w2, 4)

RECURSIVE WriteTypes(_, _, _)
WriteTypes(w, ts, i) ==
    IF i > Len(ts) THEN w ELSE WriteTypes(WriteType(w, ts[i]), ts, i + 1)

\* AdfHeader: magic " FDA", version, nine u32 fields, 20 reserved bytes, description
HeaderBytes(h) ==
    <<32, 70, 68, 65>> \o LE32(h.version)
    \o LE32(h.instance_count) \o LE32(h.instance_offset)
    \o LE32(h.type_count) \o LE32(h.type_offset)
    \o LE32(h.hash_count) \o LE32(h.hash_offset)
    \o LE32(h.string_count) \o LE32(h.string_offset)
    \o LE32(h.file_size) \o Zeros(20) \o NullStringBytes(h.description)

DefaultHeader ==
    [version |-> 4, instance_count |-> 0, instance_offset |-> 0, type_count |-> 0,
     type_offset |-> 0, hash_count |-> 0, hash_offset |-> 0, string_count |-> 0,
     string_offset |-> 0, file_size |-> 0, description |-> <<>>]

\* an instance write that stores the buffer and leaves the placeholder record
WriteInstanceRecord_placeholder(w, inst, bo) ==
    [w |-> seek(put(walign(seek(w, bo), inst.alignment), inst.buffer), w.pos + 24),
     bo |-> put(walign(seek(w, bo), inst.alignment), inst.buffer).pos]

\* impl BinWrite for AdfInstance: w.pos is the record slot, bo the running
\* buffer offset (args.1); returns the writer and the new buffer offset
WriteInstanceRecord(w, inst, bo) ==
    LET instance_offset == w.pos
        wa == walign(seek(w, bo), inst.alignment)
        buffer_offset == wa.pos
        wb == put(wa, inst.buffer)
        wc == put(seek(wb, instance_offset),
                  LE32(hash_little32(inst.name)) \o LE32(inst.type_hash)
                  \o LE32(buffer_offset) \o LE32(Len(inst.buffer)))
    IN  [w |-> WriteStringRef(wc, inst.name), bo |-> wb.pos]

RECURSIVE WriteInstanceRecords(_, _, _, _)
WriteInstanceRecords(w, pool, i, bo) ==
    IF i > Len(pool) THEN [w |-> w, bo |-> bo]
    ELSE LET r == WriteInstanceRecord(w, pool[i], bo)
         IN  WriteInstanceRecords(r.w, pool, i + 1, r.bo)

\* the length bytes of the string table: (string.len() as u8)
RECURSIVE WriteStringLengths(_, _, _)
WriteStringLengths(w, pool, i) ==
    IF i > Len(pool) THEN w
    ELSE WriteStringLengths(put(w, <<Len(pool[i]) % 256>>), pool, i + 1)

RECURSIVE WriteStringBodies(_, _, _)
WriteStringBodies(w, pool, i) ==
    IF i > Len(pool) THEN w
    ELSE WriteStringBodies(put(w, NullStringBytes(pool[i])), pool, i + 1)

\* impl BinWrite for AdfFile, on an empty stream (header_offset = 0). The
\* progress of the write is the pair of the writer w and the header h.

\* write initial header values
BeginFile(h, instances) ==
    [w |-> put([buf |-> <<>>, pos |-> 0, strings |-> <<>>, instances |-> instances],
               HeaderBytes(h)),
     h |-> h]

\* write types; w stands at type_offset
TypesFrom(w, h, types) ==
    [w |-> WriteTypes(w, types, 1),
     h |-> [h EXCEPT !.type_count = Len(types), !.type_offset = w.pos]]

WriteTypeSection(s, types) ==
    IF Len(types) > 0 THEN TypesFrom(walign(s.w, 16), s.h, types) ELSE s

\* the writer is moved behind the last buffer
FinishInstances(r, h) == [w |-> seek(r.w, r.bo), h |-> h]

\* w stands behind the placeholder records: the records are written from
\* instance_offset on, the buffers from w.pos on
PatchRecords(w, instance_offset, h) ==
    FinishInstances(
        WriteInstanceRecords(seek(w, instance_offset), w.instances, 1, w.pos),
        [h EXCEPT !.instance_count = Len(w.instances), !.instance_offset = instance_offset])

\* write instances; w stands at instance_offset
InstancesFrom(w, h) == PatchRecords(pad(w, 24 * Len(w.instances)), w.pos, h)

WriteInstanceSection(s) ==
    IF Len(s.w.instances) > 0 THEN InstancesFrom(walign(s.w, 16), s.h) ELSE s

\* write strings; w stands at string_offset
StringsFrom(w, h) ==
    [w |-> WriteStringBodies(WriteStringLengths(w, w.strings, 1), w.strings, 1),
     h |-> [h EXCEPT !.string_count = Len(w.strings), !.string_offset = w.pos]]

WriteStringSection(s) ==
    IF Len(s.w.strings) > 0 THEN StringsFrom(walign(s.w, 16), s.h) ELSE s

\* write final header (the hash list is not written)
WriteFinalHeader(s) ==
    put(seek(s.w, 0), HeaderBytes([s.h EXCEPT !.file_size = s.w.pos])).buf

WriteFile(f) ==
    WriteFinalHeader(
        WriteStringSection(
            WriteInstanceSection(
                WriteTypeSection(
                    BeginFile([DefaultHeader EXCEPT !.description = f.description],
                              f.instances),
                    f.types))))

----------------------------------------------------------------------------
(* Reader. A read returns a record with ok = FALSE and the kind of the      *)
(* error when the code returns Err, and a record with ok = TRUE, the value  *)
(* v and the position after it otherwise. An error of a nested read is      *)
(* passed on by the `?` of the caller.                                      *)

\* an error of binrw itself: end of stream, bad magic, no matching variant,
\* a failed assertion
Fail == [ok |-> FALSE, err |-> "Binrw"]

\* AdfReferenceError::InvalidIdentity and AdfInstanceError::InvalidNameHash
InvalidIdentity == [ok |-> FALSE, err |-> "InvalidIdentity"]
InvalidNameHash == [ok |-> FALSE, err |-> "InvalidNameHash"]

Has(buf, p, n) == p + n <= Len(buf)
U8(buf, p) == buf[p + 1]
U16(buf, p) == buf[p + 1] + 256 * buf[p + 2]
U32(buf, p) == buf[p + 1] + 256 * buf[p + 2] + 65536 * buf[p + 3] + 16777216 * buf[p + 4]

\* 1-based index of the first 0x00 in buf[lo..hi], 0 when there is none (by halving)
RECURSIVE FirstZero(_, _, _)
FirstZero(buf, lo, hi) ==
    IF lo > hi THEN 0
    ELSE IF lo = hi THEN (IF buf[lo] = 0 THEN lo ELSE 0)
    ELSE LET left == FirstZero(buf, lo, (lo + hi) \div 2)
         IN  IF left > 0 THEN left ELSE FirstZero(buf, (lo + hi) \div 2 + 1, hi)

\* 1-based index of the first 0x00 at index >= i, 0 when the stream ends first
FindZero(buf, i) == FirstZero(buf, i, Len(buf))

\* NullString read: the bytes up to the terminator, which is consumed
ReadNullString(buf, p) ==
    LET z == FindZero(buf, p + 1)
    IN  IF z = 0 THEN Fail
        ELSE [ok |-> TRUE, v |-> SubSeq(buf, p + 1, z - 1), pos |-> z]

\* AdfReferenceIdentity<NullString>::value: pool.get(identity as usize)
StringValue(pool, lo, hi) ==
    IF hi = 0 /\ lo < Len(pool) THEN [ok |-> TRUE, v |-> pool[lo + 1]] ELSE Fail

\* read_options taking the empty string for an index that is not in the pool
ReadStringRef_lenient(buf, p, strings) ==
    IF ~Has(buf, p, 8) THEN Fail
    ELSE LET r == StringValue(strings, U32(buf, p), U32(buf, p + 4))
         IN  [ok |-> TRUE, v |-> IF r.ok THEN r.v ELSE <<>>, pos |-> p + 8]

\* AdfReference<NullString>::read_options
ReadStringRef(buf, p, strings) ==
    IF ~Has(buf, p, 8) THEN Fail
    ELSE LET r == StringValue(strings, U32(buf, p), U32(buf, p + 4))
         IN  IF r.ok THEN [ok |-> TRUE, v |-> r.v, pos |-> p + 8] ELSE InvalidIdentity

\* AdfInstance::default(): empty name, type_hash 0, empty buffer
DefaultInstance(id) == Instance(id, <<>>, 0, <<>>, 1)

\* a lookup that returns the last instance whose name hash is the identity
RECURSIVE FindByHash_last(_, _, _)
FindByHash_last(pool, identity, i) ==
    IF i > Len(pool) THEN 0
    ELSE IF FindByHash_last(pool, identity, i + 1) > 0
    THEN FindByHash_last(pool, identity, i + 1)
    ELSE IF hash_little32(pool[i].name) = identity THEN i
    ELSE 0

\* AdfReferenceIdentity<Arc<AdfInstance>>::value: the first instance whose name
\* hash is the identity truncated to 32 bits, else a default instance
RECURSIVE FindByHash(_, _, _)
FindByHash(pool, identity, i) ==
    IF i > Len(pool) THEN 0
    ELSE IF hash_little32(pool[i].name) = identity THEN i
    ELSE FindByHash(pool, identity, i + 1)

InstanceValueOf(pool, identity, freshId) ==
    IF FindByHash(pool, identity, 1) > 0
    THEN pool[FindByHash(pool, identity, 1)]
    ELSE DefaultInstance(freshId)

\* the string table: string_count length bytes, then the strings
RECURSIVE ReadStrings(_, _, _, _, _, _)
ReadStrings(buf, lengths, i, count, p, acc) ==
    IF i = count THEN [ok |-> TRUE, v |-> acc]
    ELSE LET r == ReadNullString(buf, p)
         IN  IF ~r.ok THEN Fail
             ELSE IF Len(r.v) # U8(buf, lengths + i) THEN Fail
             ELSE ReadStrings(buf, lengths, i + 1, count, r.pos, Append(acc, r.v))

\* AdfInstance read_options without the comparison of the name hash
ReadInstance_unchecked(buf, p, strings, id) ==
    IF ~Has(buf, p, 16) THEN Fail
    ELSE LET buffer_offset == U32(buf, p + 8)
             buffer_size == U32(buf, p + 12)
             name == ReadStringRef(buf, p + 16, strings)
         IN  IF ~name.ok THEN name
             ELSE IF ~Has(buf, buffer_offset, buffer_size) THEN Fail
             ELSE [ok |-> TRUE, pos |-> name.pos,
                   v |-> Instance(id, name.v, U32(buf, p + 4),
                                  SubSeq(buf, buffer_offset + 1, buffer_offset + buffer_size),
                                  InstanceAlignment)]

\* an instance read that stays behind the buffer it has read
ReadInstance_unrestored(buf, p, strings, id) ==
    IF ~Has(buf, p, 16) THEN Fail
    ELSE LET name_hash == U32(buf, p)
             type_hash == U32(buf, p + 4)
             buffer_offset == U32(buf, p + 8)
             buffer_size == U32(buf, p + 12)
             name == ReadStringRef(buf, p + 16, strings)
         IN  IF ~name.ok THEN name
             ELSE IF ~Has(buf, buffer_offset, buffer_size) THEN Fail
             ELSE IF name_hash # hash_little32(name.v) THEN InvalidNameHash
             ELSE [ok |-> TRUE, pos |-> buffer_offset + buffer_size,
                   v |-> Instance(id, name.v, type_hash,
                                  SubSeq(buf, buffer_offset + 1, buffer_offset + buffer_size),
                                  InstanceAlignment)]

\* impl BinRead for AdfInstance; id is the identity of the new Arc
ReadInstance(buf, p, strings, id) ==
    IF ~Has(buf, p, 16) THEN Fail
    ELSE LET name_hash == U32(buf, p)
             type_hash == U32(buf, p + 4)
             buffer_offset == U32(buf, p + 8)
             buffer_size == U32(buf, p + 12)
             name == ReadStringRef(buf, p + 16, strings)
         IN  IF ~name.ok THEN name
             ELSE IF ~Has(buf, buffer_offset, buffer_size) THEN Fail
             ELSE IF name_hash # hash_little32(name.v) THEN InvalidNameHash
             ELSE [ok |-> TRUE, pos |-> name.pos,
                   v |-> Instance(id, name.v, type_hash,
                                  SubSeq(buf, buffer_offset + 1, buffer_offset + buffer_size),
                                  InstanceAlignment)]

RECURSIVE ReadInstances(_, _, _, _, _, _)
ReadInstances(buf, p, strings, i, count, acc) ==
    IF i = count THEN [ok |-> TRUE, v |-> acc]
    ELSE LET r == ReadInstance(buf, p, strings, i + 1)
         IN  IF ~r.ok THEN r
             ELSE ReadInstances(buf, r.pos, strings, i + 1, count, Append(acc, r.v))

RECURSIVE ReadHashes(_, _, _, _, _)
ReadHashes(buf, p, i, count, acc) ==
    IF i = count THEN [ok |-> TRUE, v |-> acc]
    ELSE IF ~Has(buf, p, 4) THEN Fail
    ELSE ReadHashes(buf, p + 4, i + 1, count, Append(acc, U32(buf, p)))

\* AdfMemberValue; nid is the identity the next default instance gets
ReadMemberValue(buf, p, instances, nid) ==
    IF ~Has(buf, p, 12) THEN Fail
    ELSE LET tag == U32(buf, p)
             lo == U32(buf, p + 4)
             hi == U32(buf, p + 8)
         IN  IF tag = 0
             THEN IF lo = 0 /\ hi = 0
                  THEN [ok |-> TRUE, v |-> UninitializedValue, pos |-> p + 12, nid |-> nid]
                  ELSE Fail
             ELSE IF tag = 1
             THEN [ok |-> TRUE, v |-> InlineValue(lo), pos |-> p + 12, nid |-> nid]
             ELSE IF tag = 2
             THEN [ok |-> TRUE, v |-> InstanceValue(InstanceValueOf(instances, lo, nid)),
                   pos |-> p + 12,
                   nid |-> IF FindByHash(instances, lo, 1) > 0 THEN nid ELSE nid + 1]
             ELSE Fail

ReadMember(buf, p, strings, instances, nid) ==
    LET name == ReadStringRef(buf, p, strings)
    IN  IF ~name.ok THEN name
        ELSE IF ~Has(buf, p, 20) THEN Fail
        ELSE LET offsets == U32(buf, p + 16)
                 value == ReadMemberValue(buf, p + 20, instances, nid)
             IN  IF ~value.ok THEN value
                 ELSE [ok |-> TRUE, pos |-> value.pos, nid |-> value.nid,
                       v |-> Member(name.v, U32(buf, p + 8), U32(buf, p + 12),
                                    offsets % 16777216, offsets \div 16777216, value.v)]

RECURSIVE ReadMembers(_, _, _, _, _, _, _, _)
ReadMembers(buf, p, strings, instances, nid, i, count, acc) ==
    IF i = count THEN [ok |-> TRUE, v |-> acc, pos |-> p, nid |-> nid]
    ELSE LET r == ReadMember(buf, p, strings, instances, nid)
         IN  IF ~r.ok THEN r
             ELSE ReadMembers(buf, r.pos, strings, instances, r.nid, i + 1, count,
                              Append(acc, r.v))

RECURSIVE ReadEnums(_, _, _, _, _, _)
ReadEnums(buf, p, strings, i, count, acc) ==
    IF i = count THEN [ok |-> TRUE, v |-> acc, pos |-> p]
    ELSE LET name == ReadStringRef(buf, p, strings)
         IN  IF ~name.ok THEN name
             ELSE IF ~Has(buf, p, 12) THEN Fail
             ELSE ReadEnums(buf, p + 12, strings, i + 1, count,
                            Append(acc, [name |-> name.v, value |-> U32(buf, p + 8)]))

\* AdfTypeFlags::from_bits_truncate: POD_READ, POD_WRITE, FINALIZE
TruncateFlags(bits) == BitAnd(bits, 32771)

\* AdfType (binrw derive)
ReadType(buf, p, strings, instances, nid) ==
    LET name == ReadStringRef(buf, p + 16, strings)
    IN  IF ~Has(buf, p, 16) THEN Fail
        ELSE IF U32(buf, p) > Deferred THEN Fail
        ELSE IF ~name.ok THEN name
        ELSE IF ~Has(buf, p, 36) THEN Fail
        ELSE IF U16(buf, p + 26) > Float THEN Fail
        ELSE LET t == [primitive |-> U32(buf, p), size |-> U32(buf, p + 4),
                       alignment |-> U32(buf, p + 8), type_hash |-> U32(buf, p + 12),
                       name |-> name.v, flags |-> TruncateFlags(U16(buf, p + 24)),
                       scalar_type |-> U16(buf, p + 26),
                       element_type_hash |-> U32(buf, p + 28),
                       element_length |-> U32(buf, p + 32),
                       members |-> <<>>, enumerations |-> <<>>]
             IN  IF t.primitive = Structure
                 THEN IF ~Has(buf, p + 36, 4) THEN Fail
                      ELSE LET ms == ReadMembers(buf, p + 40, strings, instances, nid, 0,
                                                 U32(buf, p + 36), <<>>)
                           IN  IF ~ms.ok THEN ms
                               ELSE [ok |-> TRUE, pos |-> ms.pos, nid |-> ms.nid,
                                     v |-> [t EXCEPT !.members = ms.v]]
                 ELSE IF t.primitive = Enumeration
                 THEN IF ~Has(buf, p + 36, 4) THEN Fail
                      ELSE LET es == ReadEnums(buf, p + 40, strings, 0, U32(buf, p + 36), <<>>)
                           IN  IF ~es.ok THEN es
                               ELSE [ok |-> TRUE, pos |-> es.pos, nid |-> nid,
                                     v |-> [t EXCEPT !.enumerations = es.v]]
                 ELSE [ok |-> TRUE, pos |-> p + 40, nid |-> nid, v |-> t]

RECURSIVE ReadTypes(_, _, _, _, _, _, _, _)
ReadTypes(buf, p, strings, instances, nid, i, count, acc) ==
    IF i = count THEN [ok |-> TRUE, v |-> acc]
    ELSE LET r == ReadType(buf, p, strings, instances, nid)
         IN  IF ~r.ok THEN r
             ELSE ReadTypes(buf, r.pos, strings, instances, r.nid, i + 1, count,
                            Append(acc, r.v))

\* AdfHeader (binrw derive)
ReadHeader(buf) ==
    IF ~Has(buf, 0, 64) THEN Fail
    ELSE IF SubSeq(buf, 1, 4) # <<32, 70, 68, 65>> \/ U32(buf, 4) # 4 THEN Fail
    ELSE LET d == ReadNullString(buf, 64)
         IN  IF ~d.ok THEN Fail
             ELSE [ok |-> TRUE,
                   v |-> [version |-> U32(buf, 4),
                          instance_count |-> U32(buf, 8), instance_offset |-> U32(buf, 12),
                          type_count |-> U32(buf, 16), type_offset |-> U32(buf, 20),
                          hash_count |-> U32(buf, 24), hash_offset |-> U32(buf, 28),
                          string_count |-> U32(buf, 32), string_offset |-> U32(buf, 36),
                          file_size |-> U32(buf, 40), description |-> d.v]]

\* impl BinRead for AdfFile: the tables are read in the order strings,
\* instances, hashes, types

NoTable == [ok |-> TRUE, v |-> <<>>]

ReadStringTable(buf, h) ==
    IF h.string_offset = 0 THEN NoTable
    ELSE IF ~Has(buf, h.string_offset, h.string_count) THEN Fail
    ELSE ReadStrings(buf, h.string_offset, 0, h.string_count,
                     h.string_offset + h.string_count, <<>>)

ReadInstanceTable(buf, h, strings) ==
    IF h.instance_offset = 0 THEN NoTable
    ELSE ReadInstances(buf, h.instance_offset, strings, 0, h.instance_count, <<>>)

ReadHashTable(buf, h) ==
    IF h.hash_offset = 0 THEN NoTable
    ELSE ReadHashes(buf, h.hash_offset, 0, h.hash_count, <<>>)

ReadTypeTable(buf, h, strings, instances) ==
    IF h.type_offset = 0 THEN NoTable
    ELSE ReadTypes(buf, h.type_offset, strings, instances, Len(instances) + 1, 0,
                   h.type_count, <<>>)

AssembleFile(h, instances, hashes, types) ==
    IF ~types.ok THEN types
    ELSE [ok |-> TRUE,
          v |-> [version |-> h.version, instances |-> instances, types |-> types.v,
                 hashes |-> hashes, description |-> h.description]]

ReadAfterInstances(buf, h, strings, instances, hashes) ==
    IF ~instances.ok THEN instances
    ELSE IF ~hashes.ok THEN hashes
    ELSE AssembleFile(h, instances.v, hashes.v,
                      ReadTypeTable(buf, h, strings, instances.v))

ReadAfterStrings(buf, h, strings) ==
    IF ~strings.ok THEN strings
    ELSE ReadAfterInstances(buf, h, strings.v, ReadInstanceTable(buf, h, strings.v),
                            ReadHashTable(buf, h))

ReadAfterHeader(buf, hr) ==
    IF ~hr.ok THEN hr ELSE ReadAfterStrings(buf, hr.v, ReadStringTable(buf, hr.v))

ReadFile(buf) == ReadAfterHeader(buf, ReadHeader(buf))

----------------------------------------------------------------------------
(* AdfFile operations *)

File(types, description) ==
    [version |-> 4, instances |-> <<>>, types |-> types, hashes |-> <<>>,
     description |-> description]

\* instances that member default values hold a reference to
ReferencedInstances(f) ==
    {f.types[i].members[j].value.inst :
        <<i, j>> \in {ij \in (DOMAIN f.types) \X (1..8) :
                        /\ ij[2] \in DOMAIN f.types[ij[1]].members
                        /\ f.types[ij[1]].members[ij[2]].value.tag = 2}}

LiveIds(f) ==
    {f.instances[i].id : i \in DOMAIN f.instances} \cup {x.id : x \in ReferencedInstances(f)}

\* the address of a new Arc: any address not in use; the least one is taken
FreshId(f) == CHOOSE n \in 1..(Cardinality(LiveIds(f)) + 1) :
                 /\ n \notin LiveIds(f)
                 /\ \A m \in 1..(n - 1) : m \in LiveIds(f)

\* AdfFile::get_instance: the first instance of that type hash and name (0: none)
RECURSIVE GetInstanceFrom(_, _, _, _)
GetInstanceFrom(instances, name, type_hash, i) ==
    IF i > Len(instances) THEN 0
    ELSE IF instances[i].type_hash = type_hash /\ instances[i].name = name THEN i
    ELSE GetInstanceFrom(instances, name, type_hash, i + 1)

get_instance(f, name, type_def) == GetInstanceFrom(f.instances, name, type_def.type_hash, 1)

\* new_instance with the buffer left empty, as in AdfInstance::default()
new_instance_unsized(f, name, type_def) ==
    IF get_instance(f, name, type_def) > 0 THEN f
    ELSE [f EXCEPT !.instances =
             Append(@, Instance(FreshId(f), name, type_def.type_hash, <<>>,
                                type_def.alignment))]

\* AdfFile::new_instance
new_instance(f, name, type_def) ==
    IF get_instance(f, name, type_def) > 0 THEN f
    ELSE [f EXCEPT !.instances =
             Append(@, Instance(FreshId(f), name, type_def.type_hash,
                                Zeros(type_def.size), type_def.alignment))]

\* Vec::swap_remove
SwapRemove(s, index) ==
    [i \in 1..(Len(s) - 1) |-> IF i = index THEN s[Len(s)] ELSE s[i]]

\* AdfFile::remove_instance, for the instance at position index
remove_instance(f, index) == [f EXCEPT !.instances = SwapRemove(@, index)]

----------------------------------------------------------------------------
(* Machine words as bit vectors: a word of w bits is a sequence of w bits,   *)
(* least significant first, so that shifts, masks and truncating casts keep  *)
(* the width of the Rust integer type.                                       *)

RECURSIVE Pow2(_)
Pow2(n) == IF n = 0 THEN 1 ELSE 2 * Pow2(n - 1)

\* little-endian bytes <-> bit vector
BitsOfByte(b) ==
    <<b % 2, (b \div 2) % 2, (b \div 4) % 2, (b \div 8) % 2,
      (b \div 16) % 2, (b \div 32) % 2, (b \div 64) % 2, (b \div 128) % 2>>

RECURSIVE BitsOfBytes(_)
BitsOfBytes(bytes) ==
    IF bytes = <<>> THEN <<>> ELSE BitsOfByte(bytes[1]) \o BitsOfBytes(Tail(bytes))

ByteOfBits(v, k) ==
    v[8 * k + 1] + 2 * v[8 * k + 2] + 4 * v[8 * k + 3] + 8 * v[8 * k + 4]
    + 16 * v[8 * k + 5] + 32 * v[8 * k + 6] + 64 * v[8 * k + 7] + 128 * v[8 * k + 8]

BytesOfBits(v) == [k \in 1..(Len(v) \div 8) |-> ByteOfBits(v, k - 1)]

\* the word 1 of w bits
BvOne(w) == <<1>> \o Zeros(w - 1)

\* v << k and v >> k (fill: the bit shifted in at the top), for 0 <= k < Len(v)
BvShl(v, k) == Zeros(k) \o SubSeq(v, 1, Len(v) - k)
BvShr(v, k, fill) == SubSeq(v, k + 1, Len(v)) \o Fill(k, fill)

BvAnd(u, v) == [i \in 1..Len(u) |-> u[i] * v[i]]
BvOr(u, v) == [i \in 1..Len(u) |-> IF u[i] = 1 \/ v[i] = 1 THEN 1 ELSE 0]

\* v - 1 with wrap-around: the bits up to and including the lowest set bit flip
RECURSIVE BvDec(_)
BvDec(v) ==
    IF v = <<>> THEN <<>>
    ELSE IF v[1] = 1 THEN <<0>> \o Tail(v)
    ELSE <<1>> \o BvDec(Tail(v))

\* `as` cast of a wider unsigned word to w bits
BvTruncate(v, w) == SubSeq(v, 1, w)

\* the minimum of a signed type: only the sign bit set
BvIsMin(v) == v[Len(v)] = 1 /\ \A j \in 1..(Len(v) - 1) : v[j] = 0

\* String::from_utf8_lossy on byte strings whose bytes are ASCII, complete
\* encodings of U+FFFD (EF BF BD), or bytes that never occur in UTF-8
\* (C0, C1, F5..FF): each of the latter becomes U+FFFD
RECURSIVE from_utf8_lossy(_)
from_utf8_lossy(bytes) ==
    IF bytes = <<>> THEN <<>>
    ELSE IF bytes[1] < 128 THEN <<bytes[1]>> \o from_utf8_lossy(Tail(bytes))
    ELSE IF Len(bytes) >= 3 /\ SubSeq(bytes, 1, 3) = <<239, 191, 189>>
    THEN <<239, 191, 189>> \o from_utf8_lossy(SubSeq(bytes, 4, Len(bytes)))
    ELSE <<239, 191, 189>> \o from_utf8_lossy(Tail(bytes))

----------------------------------------------------------------------------
(* Reflection context and reflected values (adf/reflection.rs)              *)

\* AdfReflectionContext: the types of the loaded libraries; checked tells
\* whether the build has integer overflow checks (debug) or wraps (release)
Context(types, checked) == [types |-> types, checked |-> checked]

\* HashMap<u32, AdfType> filled by extend: the last type of a hash wins
TypeIndex(ctx, type_hash) ==
    LET hits == {i \in DOMAIN ctx.types : ctx.types[i].type_hash = type_hash}
    IN  IF hits = {} THEN 0 ELSE CHOOSE i \in hits : \A j \in hits : j <= i

HasType(ctx, type_hash) == TypeIndex(ctx, type_hash) > 0
get_type(ctx, type_hash) == ctx.types[TypeIndex(ctx, type_hash)]

\* AdfReflectedValue(type_hash, primitive): kind is the variant of the
\* primitive, st and bytes the scalar variant and its little-endian bytes
\* (bytes is also the text of a String), items the nested values
Value(hash, kind, st, bytes, items) ==
    [hash |-> hash, kind |-> kind, st |-> st, bytes |-> bytes, items |-> items]

ScalarValue(hash, kind, st, bytes) == Value(hash, kind, st, bytes, <<>>)
StringValueOf(hash, text) == Value(hash, String, Signed, text, <<>>)
CompoundValue(hash, kind, items) == Value(hash, kind, Signed, <<>>, items)

\* outcomes: a panic (todo!, expect, a failed bytemuck cast, an overflow check),
\* Err(()), or Ok
Panic == [st |-> "panic"]
Err == [st |-> "err"]
Got(v) == [st |-> "ok", v |-> v]
Done(buf) == [st |-> "ok", buf |-> buf]

\* the (scalar_type, size) pairs that name a variant of AdfReflectedScalar
ValidScalar(st, size) ==
    \/ st \in {Signed, Unsigned} /\ size \in {1, 2, 4, 8}
    \/ st = Float /\ size \in {4, 8}

\* a u64 slot read as usize: -1 stands for any value beyond every buffer
SlotValue(slice) ==
    IF \E i \in 3..8 : slice[i] # 0 THEN -1 ELSE slice[1] + 256 * slice[2]

\* bytemuck::from_bytes::<u64>: the slice must have 8 bytes at an 8-aligned address
CastsToU64(slice, addr) == Len(slice) = 8 /\ addr % 8 = 0

----------------------------------------------------------------------------
(* Reflective read. base is the address of buffer[0]; a slice at offset has *)
(* the address base + offset.                                               *)

\* AdfReflectionContext::read_scalar; addr is the address of the slice
read_scalar(type_info, slice, addr) ==
    IF ~ValidScalar(type_info.scalar_type, type_info.size) THEN Panic
    ELSE IF addr % type_info.size # 0 THEN Panic
    ELSE Got([st |-> type_info.scalar_type, bytes |-> slice])

\* AdfReflectionContext::read_bitfield: the mask is a usize, cast to the word type
read_bitfield(ctx, type_info, slice, addr, shift) ==
    LET element_length == type_info.element_length
        bits == 8 * type_info.size
        mask == BvShl(BvDec(BvShl(BvOne(64), element_length % 64)), shift % 64)
        raw == BitsOfBytes(slice)
        masked == BvAnd(raw, BvTruncate(mask, bits))
        fill == IF type_info.scalar_type = Signed THEN masked[bits] ELSE 0
    IN  IF ctx.checked /\ (element_length >= 64 \/ shift >= 64) THEN Panic
        ELSE IF type_info.scalar_type = Float THEN Panic
        ELSE IF ~ValidScalar(type_info.scalar_type, type_info.size) THEN Panic
        ELSE IF addr % type_info.size # 0 THEN Panic
        ELSE IF ctx.checked /\ shift >= bits THEN Panic
        ELSE Got([st |-> type_info.scalar_type,
                  bytes |-> BytesOfBits(BvShr(masked, shift % bits, fill))])

\* the string of a String slot: from start up to the next 0x00 or the end
ReadStringAt(buffer, start) ==
    LET z == FindZero(buffer, start + 1)
        end == IF z = 0 THEN Len(buffer) ELSE z - 1
    IN  from_utf8_lossy(SubSeq(buffer, start + 1, end))

RECURSIVE read_value_by_info(_, _, _, _, _, _)
RECURSIVE ReadMemberValues(_, _, _, _, _, _, _)
RECURSIVE ReadElements(_, _, _, _, _, _, _, _)

\* AdfReflectionContext::read_value_by_hash
read_value_by_hash(ctx, type_hash, buffer, base, offset, shift) ==
    IF ~HasType(ctx, type_hash) THEN Panic
    ELSE read_value_by_info(ctx, get_type(ctx, type_hash), buffer, base, offset, shift)

\* the member loop of the Structure case
ReadMemberValues(ctx, members, buffer, base, offset, i, acc) ==
    IF i > Len(members) THEN Got(acc)
    ELSE LET r == read_value_by_hash(ctx, members[i].type_hash, buffer, base,
                                     offset + members[i].byte, members[i].bit)
         IN  IF r.st # "ok" THEN r
             ELSE ReadMemberValues(ctx, members, buffer, base, offset, i + 1,
                                   Append(acc, r.v))

\* the loop of read_array
ReadElements(ctx, type_info, buffer, base, offset, count, i, acc) ==
    IF i = count THEN Got(acc)
    ELSE LET r == read_value_by_info(ctx, type_info, buffer, base,
                                     offset + i * type_info.size, 0)
         IN  IF r.st # "ok" THEN r
             ELSE ReadElements(ctx, type_info, buffer, base, offset, count, i + 1,
                               Append(acc, r.v))

\* a read_array that returns the elements lying inside the buffer
RECURSIVE ReadElements_inside(_, _, _, _, _, _, _, _)
ReadElements_inside(ctx, type_info, buffer, base, offset, count, i, acc) ==
    IF i = count \/ offset + (i + 1) * type_info.size > Len(buffer) THEN Got(acc)
    ELSE LET r == read_value_by_info(ctx, type_info, buffer, base,
                                     offset + i * type_info.size, 0)
         IN  IF r.st # "ok" THEN r
             ELSE ReadElements_inside(ctx, type_info, buffer, base, offset, count, i + 1,
                                      Append(acc, r.v))

read_array_inside(ctx, type_info, buffer, base, offset, count) ==
    IF count < 0 \/ offset < 0 THEN Panic
    ELSE ReadElements_inside(ctx, type_info, buffer, base, offset, count, 0, <<>>)

\* AdfReflectionContext::read_array; a count beyond every buffer cannot be allocated
read_array(ctx, type_info, buffer, base, offset, count) ==
    IF count < 0 \/ offset < 0 THEN Panic
    ELSE ReadElements(ctx, type_info, buffer, base, offset, count, 0, <<>>)

\* AdfReflectionContext::read_value_by_info
read_value_by_info(ctx, type_info, buffer, base, offset, shift) ==
    LET type_size == type_info.size
        type_hash == type_info.type_hash
        slice == SubSeq(buffer, offset + 1, offset + type_size)
        addr == base + offset
        element == get_type(ctx, type_info.element_type_hash)
        scalar == read_scalar(type_info, slice, addr)
    IN  IF offset < 0 \/ Len(buffer) < type_size \/ Len(buffer) - type_size < offset
        THEN Panic
        ELSE IF type_info.alignment = 0 \/ addr % type_info.alignment # 0 THEN Panic
        ELSE IF type_info.primitive = Scalar
        THEN IF scalar.st # "ok" THEN scalar
             ELSE Got(ScalarValue(type_hash, Scalar, scalar.v.st, scalar.v.bytes))
        ELSE IF type_info.primitive = Structure
        THEN LET ms == ReadMemberValues(ctx, type_info.members, buffer, base, offset, 1, <<>>)
             IN  IF ms.st # "ok" THEN ms
                 ELSE Got(CompoundValue(type_hash, Structure, ms.v))
        ELSE IF type_info.primitive = Pointer
        THEN IF ~HasType(ctx, type_info.element_type_hash) THEN Panic
             ELSE IF ~CastsToU64(slice, addr) THEN Panic
             ELSE LET r == read_value_by_info(ctx, element, buffer, base, SlotValue(slice), 0)
                  IN  IF r.st # "ok" THEN r
                      ELSE Got(CompoundValue(type_hash, Pointer, <<r.v>>))
        ELSE IF type_info.primitive = Array
        THEN IF ~HasType(ctx, type_info.element_type_hash) THEN Panic
             ELSE IF type_size < 16 \/ addr % 8 # 0 THEN Panic
             ELSE LET r == read_array(ctx, element, buffer, base,
                                      SlotValue(SubSeq(slice, 1, 8)),
                                      SlotValue(SubSeq(slice, 9, 16)))
                  IN  IF r.st # "ok" THEN r
                      ELSE Got(CompoundValue(type_hash, Array, r.v))
        ELSE IF type_info.primitive = InlineArray
        THEN IF ~HasType(ctx, type_info.element_type_hash) THEN Panic
             ELSE LET r == read_array(ctx, element, buffer, base, offset,
                                      type_info.element_length)
                  IN  IF r.st # "ok" THEN r
                      ELSE Got(CompoundValue(type_hash, InlineArray, r.v))
        ELSE IF type_info.primitive = String
        THEN IF ~CastsToU64(slice, addr) THEN Panic
             ELSE IF SlotValue(slice) < 0 \/ SlotValue(slice) > Len(buffer) THEN Panic
             ELSE Got(StringValueOf(type_hash, ReadStringAt(buffer, SlotValue(slice))))
        ELSE IF type_info.primitive = Bitfield
        THEN LET r == read_bitfield(ctx, type_info, slice, addr, shift)
             IN  IF r.st # "ok" THEN r
                 ELSE Got(ScalarValue(type_hash, Bitfield, r.v.st, r.v.bytes))
        ELSE IF type_info.primitive = Enumeration
        THEN IF scalar.st # "ok" THEN scalar
             ELSE Got(ScalarValue(type_hash, Enumeration, scalar.v.st, scalar.v.bytes))
        ELSE IF type_info.primitive = StringHash
        THEN IF scalar.st # "ok" THEN scalar
             ELSE Got(ScalarValue(type_hash, StringHash, scalar.v.st, scalar.v.bytes))
        ELSE Panic

----------------------------------------------------------------------------
(* Reflective write. The buffer is an AVec that grows at its tail.          *)

\* the size of the Rust type of a scalar variant
SizeOfScalar(value) == Len(value.bytes)

RECURSIVE Reverse(_)
Reverse(s) == IF s = <<>> THEN <<>> ELSE Reverse(Tail(s)) \o <<s[1]>>

\* write_scalar storing the bytes in big-endian order
write_scalar_swapped(slice, scalar, type_info) ==
    IF type_info.size # Len(scalar.bytes) THEN Panic
    ELSE IF type_info.alignment # Len(scalar.bytes) THEN Panic
    ELSE IF type_info.scalar_type # scalar.st THEN Panic
    ELSE Done(Reverse(scalar.bytes))

\* AdfReflectionContext::write_scalar: the new bytes of the slice
write_scalar(slice, scalar, type_info) ==
    IF type_info.size # SizeOfScalar(scalar) THEN Panic
    ELSE IF type_info.alignment # SizeOfScalar(scalar) THEN Panic
    ELSE IF type_info.scalar_type # scalar.st THEN Panic
    ELSE Done(scalar.bytes)

\* `(1 << element_length) - 1` in the word type of the scalar variant
WriteMask(bits, element_length) == BvDec(BvShl(BvOne(bits), element_length % bits))

\* the overflow checks of `(1 << element_length) - 1` and `<< shift`
WriteMaskOverflows(bits, st, element_length, shift) ==
    \/ element_length >= bits
    \/ st = Signed /\ BvIsMin(BvShl(BvOne(bits), element_length % bits))
    \/ shift >= bits

\* write_bitfield assigning the shifted field to the word instead of or-ing it in
write_bitfield_assign(ctx, slice, scalar, type_info, shift) ==
    LET bits == 8 * SizeOfScalar(scalar)
        mask == WriteMask(bits, type_info.element_length)
    IN  IF type_info.size # SizeOfScalar(scalar) THEN Panic
        ELSE Done(BytesOfBits(BvShl(BvAnd(BitsOfBytes(scalar.bytes), mask), shift % bits)))

\* AdfReflectionContext::write_bitfield: the new bytes of the slice
write_bitfield(ctx, slice, scalar, type_info, shift) ==
    LET bits == 8 * SizeOfScalar(scalar)
        mask == WriteMask(bits, type_info.element_length)
        field == BvShl(BvAnd(BitsOfBytes(scalar.bytes), mask), shift % bits)
    IN  IF scalar.st = Float THEN Panic
        ELSE IF ctx.checked
                /\ WriteMaskOverflows(bits, scalar.st, type_info.element_length, shift)
        THEN Panic
        ELSE IF type_info.size # SizeOfScalar(scalar) THEN Panic
        ELSE IF type_info.alignment # SizeOfScalar(scalar) THEN Panic
        ELSE IF type_info.scalar_type # scalar.st THEN Panic
        ELSE Done(BytesOfBits(BvOr(BitsOfBytes(slice), field)))

\* AVec::resize(new_len, 0)
Resize(buffer, new_len) ==
    IF new_len <= Len(buffer) THEN SubSeq(buffer, 1, new_len)
    ELSE buffer \o Zeros(new_len - Len(buffer))

\* a store through a slice of the buffer
Store(buffer, offset, r) ==
    IF r.st # "ok" THEN r ELSE Done(Overwrite(buffer, offset, r.buf))

RECURSIVE write_value_by_info(_, _, _, _, _, _, _)
RECURSIVE WriteMemberValues(_, _, _, _, _, _, _)
RECURSIVE WriteElements(_, _, _, _, _, _, _)

\* AdfReflectionContext::write_value_by_hash
write_value_by_hash(ctx, value, type_hash, buffer, base, offset, shift) ==
    IF ~HasType(ctx, type_hash) THEN Err
    ELSE write_value_by_info(ctx, value, get_type(ctx, type_hash), buffer, base, offset, shift)

\* the member loop of the Structure case
WriteMemberValues(ctx, values, members, buffer, base, offset, i) ==
    IF i > Len(members) THEN Done(buffer)
    ELSE IF values[i].hash # members[i].type_hash THEN Panic
    ELSE LET r == write_value_by_hash(ctx, values[i], members[i].type_hash, buffer, base,
                                      offset + members[i].byte, members[i].bit)
         IN  IF r.st # "ok" THEN r
             ELSE WriteMemberValues(ctx, values, members, r.buf, base, offset, i + 1)

\* the loop of write_array without the comparison of the type hashes
RECURSIVE WriteElements_unchecked(_, _, _, _, _, _, _)
WriteElements_unchecked(ctx, values, type_info, buffer, base, offset, i) ==
    IF i > Len(values) THEN Done(buffer)
    ELSE LET r == write_value_by_info(ctx, values[i], type_info, buffer, base,
                                      offset + (i - 1) * type_info.size, 0)
         IN  IF r.st # "ok" THEN r
             ELSE WriteElements_unchecked(ctx, values, type_info, r.buf, base, offset,
                                          i + 1)

\* the loop of write_array
WriteElements(ctx, values, type_info, buffer, base, offset, i) ==
    IF i > Len(values) THEN Done(buffer)
    ELSE IF values[i].hash # type_info.type_hash THEN Panic
    ELSE LET r == write_value_by_info(ctx, values[i], type_info, buffer, base,
                                      offset + (i - 1) * type_info.size, 0)
         IN  IF r.st # "ok" THEN r
             ELSE WriteElements(ctx, values, type_info, r.buf, base, offset, i + 1)

\* AdfReflectionContext::write_array
write_array(ctx, values, type_info, buffer, base, offset, count) ==
    IF Len(values) # count THEN Panic
    ELSE WriteElements(ctx, values, type_info, buffer, base, offset, 1)

\* AdfReflectionContext::write_value_by_info
write_value_by_info(ctx, value, type_info, buffer, base, offset, shift) ==
    LET type_size == type_info.size
        buffer_size == Len(buffer)
        slice == SubSeq(buffer, offset + 1, offset + type_size)
        addr == base + offset
        element == get_type(ctx, type_info.element_type_hash)
        tail == align(buffer_size, element.alignment)
    IN  IF Len(buffer) < type_size \/ Len(buffer) - type_size < offset THEN Panic
        ELSE IF type_info.alignment = 0 \/ addr % type_info.alignment # 0 THEN Panic
        ELSE IF value.kind # type_info.primitive THEN Panic
        ELSE IF value.kind \in {Scalar, Enumeration, StringHash}
        THEN Store(buffer, offset, write_scalar(slice, value, type_info))
        ELSE IF value.kind = Structure
        THEN IF Len(value.items) # Len(type_info.members) THEN Panic
             ELSE WriteMemberValues(ctx, value.items, type_info.members, buffer, base,
                                    offset, 1)
        ELSE IF value.kind = Pointer
        THEN IF type_info.element_type_hash # value.items[1].hash THEN Panic
             ELSE IF ~HasType(ctx, type_info.element_type_hash) THEN Panic
             ELSE IF element.alignment = 0 THEN Panic
             ELSE IF type_size < 8 \/ addr % 8 # 0 THEN Panic
             ELSE write_value_by_info(
                      ctx, value.items[1], element,
                      Resize(Overwrite(buffer, offset, LE64(tail)), tail + element.size),
                      base, tail, 0)
        ELSE IF value.kind = Array
        THEN IF ~HasType(ctx, type_info.element_type_hash) THEN Panic
             ELSE IF element.alignment = 0 THEN Panic
             ELSE IF type_size < 16 \/ addr % 8 # 0 THEN Panic
             ELSE write_array(
                      ctx, value.items, element,
                      Resize(Overwrite(buffer, offset,
                                       LE64(tail) \o LE64(Len(value.items))),
                             tail + element.size * Len(value.items)),
                      base, tail, Len(value.items))
        ELSE IF value.kind = InlineArray
        THEN IF Len(value.items) # type_info.element_length THEN Panic
             ELSE IF ~HasType(ctx, type_info.element_type_hash) THEN Panic
             ELSE write_array(ctx, value.items, element, buffer, base, offset,
                              type_info.element_length)
        ELSE IF value.kind = String
        THEN IF ~CastsToU64(slice, addr) THEN Panic
             ELSE Done(Overwrite(
                      Resize(Overwrite(buffer, offset, LE64(buffer_size)),
                             buffer_size + Len(value.bytes) + 1),
                      buffer_size, value.bytes))
        ELSE IF value.kind = Bitfield
        THEN Store(buffer, offset, write_bitfield(ctx, slice, value, type_info, shift))
        ELSE Done(buffer)

\* AdfReflectionContext::read_instance on the instance at position index; the
\* buffer lies at address k * alignment
read_instance(ctx, f, index, k) ==
    read_value_by_hash(ctx, f.instances[index].type_hash, f.instances[index].buffer,
                       k * f.instances[index].alignment, 0, 0)

\* AdfReflectionContext::write_instance: the file afterwards, or a panic
write_instance(ctx, name, value, f, k) ==
    IF ~HasType(ctx, value.hash) THEN Panic
    ELSE LET type_info == get_type(ctx, value.hash)
             g == new_instance(f, name, type_info)
             index == get_instance(g, name, type_info)
             r == write_value_by_hash(ctx, value, value.hash, g.instances[index].buffer,
                                      k * g.instances[index].alignment, 0, 0)
         IN  IF r.st # "ok" THEN Panic
             ELSE [st |-> "ok", index |-> index,
                   adf |-> [g EXCEPT !.instances[index].buffer = r.buf]]

----------------------------------------------------------------------------
(* The tool pipeline: a file is built or edited in memory, written, and     *)
(* parsed again; another producer may have added a hash list to a file.     *)

Names == {NameA, NameB}

\* no typed-codec session is open
NoSession == [phase |-> "none"]

\* no instance is shared between threads
NoGate == [holder |-> 0, poisoned |-> FALSE]

\* no typed-codec type was looked at
NoInfo == [kind |-> "none"]
InstanceTypes == {TU32, TStr}

InitialFiles ==
    {File(<<>>, <<>>), File(<<TPair, TEnum, TU32>>, <<100>>),
     File(<<TLong(255)>>, <<>>), File(<<TLong(256)>>, <<>>)}

InitFile ==
    /\ adf \in InitialFiles
    /\ disk = <<>>
    /\ mode = "mem"
    /\ origLen = 0
    /\ pristine = FALSE
    /\ context = Context(<<>>, TRUE)
    /\ tree = <<>>
    /\ tw = NoSession
    /\ tr = NoSession
    /\ gate = NoGate
    /\ threads = <<>>
    /\ info = NoInfo

NewInstance(name, type_def) ==
    /\ mode = "mem"
    /\ get_instance(adf, name, type_def) > 0 \/ Len(adf.instances) < MaxInstances
    /\ adf' = new_instance(adf, name, type_def)
    /\ pristine' = (pristine /\ adf' = adf)
    /\ origLen' = IF adf' = adf THEN origLen ELSE 0
    /\ UNCHANGED <<disk, mode, reflVars, typedVars, gateVars, info>>

RemoveInstance(index) ==
    /\ mode = "mem"
    /\ index \in DOMAIN adf.instances
    /\ adf' = remove_instance(adf, index)
    /\ pristine' = FALSE
    /\ origLen' = 0
    /\ UNCHANGED <<disk, mode, reflVars, typedVars, gateVars, info>>

Write ==
    /\ mode = "mem"
    /\ disk' = WriteFile(adf)
    /\ mode' = "disk"
    /\ UNCHANGED <<adf, origLen, pristine, reflVars, typedVars, gateVars, info>>

\* a file of another producer: the written file with a hash list appended
WithHashes(buf, hashes) ==
    LET off == align(Len(buf), 16)
        body == buf \o Zeros(off - Len(buf)) \o LE32(hashes[1])
    IN  Overwrite(Overwrite(body, 24, LE32(1) \o LE32(off)), 40, LE32(Len(body)))

AddHashes ==
    /\ mode = "disk"
    /\ disk' = WithHashes(disk, <<51966>>)
    /\ mode' = "ext"
    /\ UNCHANGED <<adf, origLen, pristine, reflVars, typedVars, gateVars, info>>

Parse ==
    /\ mode \in {"disk", "ext"}
    /\ LET r == ReadFile(disk)
       IN  IF r.ok
           THEN /\ adf' = r.v
                /\ mode' = "mem"
                /\ origLen' = Len(disk)
                /\ pristine' = TRUE
                /\ disk' = <<>>
           ELSE /\ mode' = "failed"
                /\ UNCHANGED <<adf, disk, origLen, pristine>>
    /\ UNCHANGED <<reflVars, typedVars, gateVars, info>>

Next ==
    \/ \E name \in Names, type_def \in InstanceTypes : NewInstance(name, type_def)
    \/ \E index \in 1..(MaxInstances + 1) : RemoveInstance(index)
    \/ Write
    \/ AddHashes
    \/ Parse

Init == InitFile

Spec == Init /\ [][Next]_vars

----------------------------------------------------------------------------
(* Files of other producers: a written file in which one field differs from *)
(* what AdfFile write stores there (a name hash, the string index of a      *)
(* name, the identity of a member's default instance).                      *)

Fields == {"name_hash", "instance_name", "type_name", "member_name", "enum_name",
           "instance_ref"}

\* position of the i-th (0-based) instance record: 24 bytes each
RecordPos(h, i) == h.instance_offset + 24 * i

\* bytes of the type at p: 36 fixed bytes, then a count and 32 bytes per
\* member, or a count and 12 bytes per enum entry, or 4 bytes of padding
TypeBytes(buf, p) ==
    IF U32(buf, p) = Structure THEN 40 + 32 * U32(buf, p + 36)
    ELSE IF U32(buf, p) = Enumeration THEN 40 + 12 * U32(buf, p + 36)
    ELSE 40

\* position of the i-th (0-based) type
RECURSIVE TypePos(_, _, _)
TypePos(buf, h, i) ==
    IF i = 0 THEN h.type_offset
    ELSE TypePos(buf, h, i - 1) + TypeBytes(buf, TypePos(buf, h, i - 1))

\* position of the j-th (0-based) member or enum entry of the type at p
MemberPos(p, j) == p + 40 + 32 * j
EnumPos(p, j) == p + 40 + 12 * j

TypeSlots(buf, h) == {TypePos(buf, h, i) : i \in 0..(h.type_count - 1)}

MemberSlots(buf, h) ==
    UNION {{MemberPos(p, j) : j \in 0..(U32(buf, p + 36) - 1)} :
              p \in {q \in TypeSlots(buf, h) : U32(buf, q) = Structure}}

EnumSlots(buf, h) ==
    UNION {{EnumPos(p, j) : j \in 0..(U32(buf, p + 36) - 1)} :
              p \in {q \in TypeSlots(buf, h) : U32(buf, q) = Enumeration}}

\* the positions of the fields of a kind in a written file
Slots(buf, field) ==
    LET h == ReadHeader(buf).v
        records == {RecordPos(h, i) : i \in 0..(h.instance_count - 1)}
    IN  IF field = "name_hash" THEN records
        ELSE IF field = "instance_name" THEN {p + 16 : p \in records}
        ELSE IF field = "type_name" THEN {p + 16 : p \in TypeSlots(buf, h)}
        ELSE IF field = "member_name" THEN MemberSlots(buf, h)
        ELSE IF field = "enum_name" THEN EnumSlots(buf, h)
        ELSE {p + 24 : p \in {q \in MemberSlots(buf, h) : U32(buf, q + 20) = 2}}

\* a 32-bit value that is the name hash of no instance record of the file
UnusedHash(buf) ==
    CHOOSE n \in 0..255 : \A p \in Slots(buf, "name_hash") : U32(buf, p) # n

\* what the other producer stored in the field at p: another name hash, a
\* string index beyond the string table, an identity of no instance
ForeignField(buf, field, p) ==
    IF field = "name_hash" THEN LE32((U32(buf, p) + 1) % 65536)
    ELSE IF field = "instance_ref" THEN LE64(UnusedHash(buf))
    ELSE LE64(ReadHeader(buf).v.string_count)

ForeignFiles == {File(<<>>, <<>>), File(<<TPair, TEnum, TU32>>, <<100>>)}

InitForeign ==
    /\ adf \in ForeignFiles
    /\ disk = <<>>
    /\ mode = "mem"
    /\ origLen = 0
    /\ pristine = FALSE
    /\ context = Context(<<>>, TRUE)
    /\ tree = <<>>
    /\ tw = NoSession
    /\ tr = NoSession
    /\ gate = NoGate
    /\ threads = <<>>
    /\ info = NoInfo

\* the file on disk, written from a file built or edited in memory, is
\* replaced by the file of the other producer
Replace(field, p) ==
    /\ mode = "disk"
    /\ origLen = 0
    /\ ReadHeader(disk).v.instance_count <= MaxInstances
    /\ disk' = Overwrite(disk, p, ForeignField(disk, field, p))
    /\ mode' = "ext"
    /\ UNCHANGED <<adf, origLen, pristine, reflVars, typedVars, gateVars, info>>

NextForeign ==
    \/ \E name \in Names, type_def \in InstanceTypes : NewInstance(name, type_def)
    \/ Write
    \/ mode = "disk" /\ \E field \in Fields : \E p \in Slots(disk, field) : Replace(field, p)
    \/ Parse

SpecForeign == InitForeign /\ [][NextForeign]_vars

----------------------------------------------------------------------------
(* The reflective tools: instances of a parsed file are read into value     *)
(* trees, and value trees are written into instances.                       *)

TI16 == Type(Scalar, 2, 2, 14, <<105, 49, 54>>, Signed, 0, 0, <<>>, <<>>)
\* a 2-byte scalar with alignment 1 (a member of a packed structure)
TPacked == Type(Scalar, 2, 1, 15, <<112>>, Unsigned, 0, 0, <<>>, <<>>)
TInl == Type(InlineArray, 4, 2, 26, <<73>>, Signed, 12, 2, <<>>, <<>>)
THash == Type(StringHash, 4, 4, 27, <<72>>, Unsigned, 0, 0, <<>>, <<>>)
TRec ==
    Type(Structure, 24, 8, 28, <<82>>, Signed, 0, 0,
         <<Member(<<110>>, 12, 2, 0, 0, UninitializedValue),
           Member(<<115>>, 20, 8, 8, 0, UninitializedValue),
           Member(<<112>>, 21, 8, 16, 0, UninitializedValue)>>,
         <<>>)

\* a Bitfield of element_length bits in an unsigned word of size bytes
TBits(hash, size, element_length) ==
    Type(Bitfield, size, size, hash, <<66>>, Unsigned, 0, element_length, <<>>, <<>>)

\* a Structure of one word whose members are the bit ranges r0 and r1
\* (<<shift, width>>), of the Bitfield types with hashes 40 and 41
TFlags(size, r0, r1) ==
    Type(Structure, size, size, 42, <<70>>, Signed, 0, 0,
         <<Member(<<102, 48>>, 40, size, 0, r0[1], UninitializedValue),
           Member(<<102, 49>>, 41, size, 0, r1[1], UninitializedValue)>>,
         <<>>)

FlagTypes(size, r0, r1) == <<TBits(40, size, r0[2]), TBits(41, size, r1[2]), TFlags(size, r0, r1)>>

ReflectRegistry ==
    <<TU8, TU16, TU32, TI16, TPacked, TStr, TPtr, TArr, TEnum, TPair, TInl, THash, TRec>>
    \o FlagTypes(1, <<0, 3>>, <<3, 2>>)

\* instance buffers of parsed files, by type hash
ReflectInputs ==
    {<<13, <<239, 190, 173, 222>>>>,
     <<14, <<255, 255>>>>,
     <<15, <<5, 0>>>>,
     <<20, LE64(16) \o Zeros(8) \o <<104, 101, 108, 108, 111, 0>>>>,
     <<20, LE64(8) \o <<104, 255, 0>>>>,
     <<20, LE64(8) \o <<104, 105>>>>,
     <<20, LE64(40) \o <<104, 0>>>>,
     <<21, LE64(10) \o <<0, 0, 52, 18>>>>,
     <<22, LE64(16) \o LE64(2) \o <<1, 0, 2, 0>>>>,
     <<22, LE64(0) \o LE64(0)>>,
     <<23, LE32(1)>>,
     <<24, LE32(7) \o LE32(9)>>,
     <<26, <<1, 0, 2, 0>>>>,
     <<27, <<77, 41, 197, 72>>>>,
     <<28, LE16(7) \o Zeros(6) \o LE64(24) \o LE64(26) \o <<97, 0, 9, 0>>>>,
     <<42, <<255>>>>}

\* value trees a tool builds itself
U16Value(n) == ScalarValue(12, Scalar, Unsigned, LE16(n))
ReflectValues ==
    {ScalarValue(13, Scalar, Unsigned, <<1, 2, 3, 4>>),
     CompoundValue(28, Structure,
                   <<U16Value(7), StringValueOf(20, <<97>>),
                     CompoundValue(21, Pointer, <<U16Value(9)>>)>>)}

\* the address of a buffer is a multiple of its alignment: base = k * alignment
BaseFactors == {1, 2}

InitReflect ==
    /\ \E input \in ReflectInputs :
           adf = [File(<<>>, <<>>) EXCEPT
                     !.instances = <<Instance(1, NameA, input[1], input[2],
                                              InstanceAlignment)>>]
    /\ context \in {Context(ReflectRegistry, checked) :
                        checked \in IF adf.instances[1].type_hash = 42
                                    THEN BOOLEAN ELSE {TRUE}}
    /\ disk = <<>>
    /\ mode = "mem"
    /\ origLen = 0
    /\ pristine = FALSE
    /\ tree = <<>>
    /\ tw = NoSession
    /\ tr = NoSession
    /\ gate = NoGate
    /\ threads = <<>>
    /\ info = NoInfo

\* read_instance of the instance at position index
ReflectRead(index, k) ==
    /\ mode = "mem"
    /\ index \in DOMAIN adf.instances
    /\ LET r == read_instance(context, adf, index, k)
       IN  IF r.st = "ok"
           THEN tree' = <<r.v>> /\ mode' = mode
           ELSE tree' = tree /\ mode' = "failed"
    /\ UNCHANGED <<adf, disk, origLen, pristine, context, typedVars, gateVars, info>>

\* write_instance(name, value, adf); a panic ends the tool
ReflectWrite(name, value, k) ==
    /\ mode = "mem"
    /\ HasType(context, value.hash) =>
           \/ get_instance(adf, name, get_type(context, value.hash)) > 0
           \/ Len(adf.instances) < MaxInstances
    /\ LET r == write_instance(context, name, value, adf, k)
       IN  IF r.st = "ok"
           THEN /\ Len(r.adf.instances[r.index].buffer)
                      <= get_type(context, value.hash).size + MaxGrowth
                /\ adf' = r.adf
                /\ mode' = mode
           ELSE adf' = adf /\ mode' = "failed"
    /\ pristine' = FALSE
    /\ origLen' = 0
    /\ UNCHANGED <<disk, reflVars, typedVars, gateVars, info>>

\* a tool writes a value it built
WriteValue(name, value, k) == ReflectWrite(name, value, k)

\* a tool writes back the tree it read, under a name
WriteTree(name, k) == tree # <<>> /\ ReflectWrite(name, tree[1], k)

NextReflect ==
    \/ \E type_def \in InstanceTypes : NewInstance(NameB, type_def)
    \/ \E index \in 1..(MaxInstances + 1), k \in BaseFactors : ReflectRead(index, k)
    \/ \E value \in ReflectValues, k \in BaseFactors : WriteValue(NameB, value, k)
    \/ \E name \in Names, k \in BaseFactors : WriteTree(name, k)

SpecReflect == InitReflect /\ [][NextReflect]_vars

----------------------------------------------------------------------------
(* Bitfield structures: a tool writes a structure of two bit ranges of one   *)
(* unsigned word into a new instance and reads it back.                     *)

MaxFieldBits == 4

WordSizes == {1, 2, 4}
FieldNumbers == {5, 9, 255}

BitRanges == {r \in (0..MaxFieldBits) \X (1..MaxFieldBits) : r[1] + r[2] <= MaxFieldBits}

Disjoint(r0, r1) == r0[1] + r0[2] <= r1[1] \/ r1[1] + r1[2] <= r0[1]

\* two disjoint ranges of the low MaxFieldBits bits, and the ranges (0, 3), (3, 5)
RangePairs ==
    {p \in BitRanges \X BitRanges : Disjoint(p[1], p[2])} \cup {<<<<0, 3>>, <<3, 5>>>>}

\* n as size little-endian bytes, and back
ToLE(n, size) == [i \in 1..size |-> (n \div Pow2(8 * (i - 1))) % 256]

RECURSIVE FromLE(_)
FromLE(bytes) == IF bytes = <<>> THEN 0 ELSE bytes[1] + 256 * FromLE(Tail(bytes))

\* the value {f0: v0, f1: v1} of the structure TFlags over a word of size bytes
FlagsValue(size, v0, v1) ==
    CompoundValue(42, Structure,
                  <<ScalarValue(40, Bitfield, Unsigned, ToLE(v0, size)),
                    ScalarValue(41, Bitfield, Unsigned, ToLE(v1, size))>>)

InitBits ==
    /\ context \in {Context(FlagTypes(size, p[1], p[2]), checked) :
                       size \in WordSizes, p \in RangePairs, checked \in BOOLEAN}
    /\ adf = File(<<>>, <<>>)
    /\ disk = <<>>
    /\ mode = "mem"
    /\ origLen = 0
    /\ pristine = FALSE
    /\ tree \in {<<FlagsValue(get_type(context, 42).size, v0, v1)>> :
                    v0 \in FieldNumbers, v1 \in FieldNumbers}
    /\ tw = NoSession
    /\ tr = NoSession
    /\ gate = NoGate
    /\ threads = <<>>
    /\ info = NoInfo

NextBits ==
    \/ \E k \in BaseFactors : WriteTree(NameA, k)
    \/ \E k \in BaseFactors : ReflectRead(1, k)

SpecBits == InitBits /\ [][NextBits]_vars

----------------------------------------------------------------------------
(* Full-width bitfields: an instance of a Bitfield type whose element_length *)
(* is the bit count of its word is read, and the value read is written into  *)
(* a new instance.                                                           *)

FullSizes == {1, 2, 4, 8}

\* a Bitfield over the whole word of size bytes
TFull(size, st) == Type(Bitfield, size, size, 43, <<87>>, st, 0, 8 * size, <<>>, <<>>)

\* the words stored in the instance of the parsed file
StoredWords(size) ==
    {Fill(size, 171), Fill(size, 255), <<1>> \o Zeros(size - 1), Zeros(size - 1) \o <<128>>}

InitFull ==
    /\ context \in {Context(<<TFull(size, st)>>, checked) :
                       size \in FullSizes, st \in {Signed, Unsigned}, checked \in BOOLEAN}
    /\ \E word \in StoredWords(get_type(context, 43).size) :
           adf = [File(<<>>, <<>>) EXCEPT
                     !.instances = <<Instance(1, NameA, 43, word, InstanceAlignment)>>]
    /\ disk = <<>>
    /\ mode = "mem"
    /\ origLen = 0
    /\ pristine = FALSE
    /\ tree = <<>>
    /\ tw = NoSession
    /\ tr = NoSession
    /\ gate = NoGate
    /\ threads = <<>>
    /\ info = NoInfo

NextFull ==
    \/ \E k \in BaseFactors : ReflectRead(1, k)
    \/ \E k \in BaseFactors : WriteTree(NameB, k)

SpecFull == InitFull /\ [][NextFull]_vars

----------------------------------------------------------------------------
(* Types of primitive Recursive and Deferred: files whose instances have     *)
(* such types, or structures with such members, are read, and a tool writes  *)
(* values for them.                                                          *)

TDeferred == Type(Deferred, 16, 8, 45, <<68>>, Signed, 0, 0, <<>>, <<>>)
TRecursive == Type(Recursive, 8, 8, 47, <<82, 99>>, Signed, 13, 0, <<>>, <<>>)

\* a structure of a u32 and a Deferred member
THolder ==
    Type(Structure, 24, 8, 46, <<72, 111>>, Signed, 0, 0,
         <<Member(<<110>>, 13, 4, 0, 0, UninitializedValue),
           Member(<<100>>, 45, 8, 8, 0, UninitializedValue)>>,
         <<>>)

\* a structure of a u32 and a Recursive member
TNested ==
    Type(Structure, 16, 8, 48, <<78, 101>>, Signed, 0, 0,
         <<Member(<<110>>, 13, 4, 0, 0, UninitializedValue),
           Member(<<114>>, 47, 8, 8, 0, UninitializedValue)>>,
         <<>>)

DeferredRegistry == <<TU32, TDeferred, TRecursive, THolder, TNested>>

U32Value(n) == ScalarValue(13, Scalar, Unsigned, LE32(n))

\* AdfReflectedPrimitive::Deferred(Arc<AdfReflectedValue>) of a u32
DeferredValue(n) == CompoundValue(45, Deferred, <<U32Value(n)>>)

\* instance buffers of parsed files, by type hash
DeferredInputs ==
    {<<13, LE32(5)>>, <<13, LE32(6)>>,
     <<45, LE32(13) \o Zeros(4) \o LE64(16) \o LE32(5)>>,
     <<45, Zeros(16)>>,
     <<47, LE64(8) \o LE32(5)>>,
     <<47, Zeros(8)>>,
     <<46, LE32(5) \o Zeros(4) \o LE32(13) \o Zeros(4) \o LE64(24) \o LE32(6)>>,
     <<48, LE32(5) \o Zeros(4) \o LE64(16) \o LE32(6)>>}

\* value trees a tool builds itself; no AdfReflectedPrimitive is Recursive, so
\* a value for a Recursive type has another kind
DeferredValues ==
    {U32Value(7), U32Value(9), DeferredValue(7), DeferredValue(9),
     CompoundValue(46, Structure, <<U32Value(7), DeferredValue(9)>>),
     CompoundValue(47, Pointer, <<U32Value(7)>>),
     CompoundValue(48, Structure, <<U32Value(7), CompoundValue(47, Pointer, <<U32Value(9)>>)>>)}

InitDeferred ==
    /\ \E input \in DeferredInputs :
           adf = [File(<<>>, <<>>) EXCEPT
                     !.instances = <<Instance(1, NameA, input[1], input[2],
                                              InstanceAlignment)>>]
    /\ context = Context(DeferredRegistry, TRUE)
    /\ disk = <<>>
    /\ mode = "mem"
    /\ origLen = 0
    /\ pristine = FALSE
    /\ tree = <<>>
    /\ tw = NoSession
    /\ tr = NoSession
    /\ gate = NoGate
    /\ threads = <<>>
    /\ info = NoInfo

NextDeferred ==
    \/ \E index \in 1..MaxInstances, k \in BaseFactors : ReflectRead(index, k)
    \/ \E name \in Names, value \in DeferredValues, k \in BaseFactors :
           WriteValue(name, value, k)
    \/ \E name \in Names, k \in BaseFactors : WriteTree(name, k)

SpecDeferred == InitDeferred /\ [][NextDeferred]_vars

----------------------------------------------------------------------------
(* Indirect payloads: the instance of a parsed file has a Pointer, Array or  *)
(* String type and a buffer that may be longer than the type (payload of an  *)
(* earlier write); a tool writes a value tree into it and reads it back.     *)

TPtr32 == Type(Pointer, 8, 8, 31, <<80, 52>>, Signed, 13, 0, <<>>, <<>>)
TArr32 == Type(Array, 16, 8, 32, <<65, 52>>, Signed, 13, 0, <<>>, <<>>)
TPtrPtr == Type(Pointer, 8, 8, 33, <<80, 80>>, Signed, 21, 0, <<>>, <<>>)

AllocRegistry == <<TU8, TU16, TU32, TStr, TPtr, TArr, TPtr32, TArr32, TPtrPtr>>

\* bytes behind the slot: payload that an earlier write left in the buffer
Leftovers == {<<>>, <<170>>, <<170, 187>>, <<170, 187, 204>>}

AllocValues ==
    {StringValueOf(20, <<>>), StringValueOf(20, <<104, 105>>),
     CompoundValue(21, Pointer, <<U16Value(9)>>),
     CompoundValue(22, Array, <<>>),
     CompoundValue(22, Array, <<U16Value(7), U16Value(9)>>),
     CompoundValue(31, Pointer, <<U32Value(7)>>),
     CompoundValue(32, Array, <<U32Value(7)>>),
     CompoundValue(33, Pointer, <<CompoundValue(21, Pointer, <<U16Value(9)>>)>>)}

InitAlloc ==
    /\ context = Context(AllocRegistry, TRUE)
    /\ tree \in {<<v>> : v \in AllocValues}
    /\ \E rest \in Leftovers :
           adf = [File(<<>>, <<>>) EXCEPT
                     !.instances = <<Instance(1, NameA, tree[1].hash,
                                              Zeros(get_type(context, tree[1].hash).size)
                                              \o rest,
                                              InstanceAlignment)>>]
    /\ disk = <<>>
    /\ mode = "mem"
    /\ origLen = 0
    /\ pristine = FALSE
    /\ tw = NoSession
    /\ tr = NoSession
    /\ gate = NoGate
    /\ threads = <<>>
    /\ info = NoInfo

NextAlloc ==
    \/ \E k \in BaseFactors : WriteTree(NameA, k)
    \/ \E k \in BaseFactors : ReflectRead(1, k)

SpecAlloc == InitAlloc /\ [][NextAlloc]_vars

----------------------------------------------------------------------------
(* Value trees of a tool: trees that fit the registered types and trees with *)
(* another type hash, another variant or another number of items at some     *)
(* site are written into a new instance of an empty file.                    *)

\* a scalar value carrying the type hash h
Leaf(h) ==
    IF h = 11 THEN ScalarValue(11, Scalar, Unsigned, <<5>>)
    ELSE IF h = 12 THEN U16Value(7)
    ELSE IF h = 14 THEN ScalarValue(14, Scalar, Signed, LE16(7))
    ELSE U32Value(7)

LeafHashes == {11, 12, 13, 14}

\* a u16 scalar carrying the type hash of the i16 type
Mislabelled == ScalarValue(14, Scalar, Unsigned, LE16(7))

\* sequences of 0 to n leaves
LeafSeqs(n) == UNION {[1..m -> {Leaf(12), Mislabelled}] : m \in 0..n}

TreeValues ==
    {Leaf(h) : h \in LeafHashes}
    \cup {ScalarValue(h, kind, Unsigned, LE16(7)) : h \in {12, 23}, kind \in {Enumeration, StringHash}}
    \cup {CompoundValue(21, kind, <<Leaf(h)>>) : h \in LeafHashes, kind \in {Pointer, Array}}
    \cup {CompoundValue(21, Pointer, <<Mislabelled>>)}
    \cup {CompoundValue(22, kind, items) : items \in LeafSeqs(2), kind \in {Array, InlineArray}}
    \cup {CompoundValue(26, InlineArray, items) : items \in LeafSeqs(3)}
    \cup {CompoundValue(24, Structure, [i \in 1..m |-> Leaf(h)]) : h \in {12, 13}, m \in 2..4}
    \cup {CompoundValue(28, Structure,
                        <<Mislabelled, StringValueOf(20, <<97>>),
                          CompoundValue(21, Pointer, <<Leaf(12)>>)>>)}
    \cup {CompoundValue(28, Structure,
                        <<Leaf(h), StringValueOf(g, <<97>>),
                          CompoundValue(21, Pointer, <<Leaf(f)>>)>>) :
              h \in {12, 14}, g \in {20, 21}, f \in {12, 13}}

InitTrees ==
    /\ context = Context(ReflectRegistry, TRUE)
    /\ tree \in {<<v>> : v \in TreeValues}
    /\ adf = File(<<>>, <<>>)
    /\ disk = <<>>
    /\ mode = "mem"
    /\ origLen = 0
    /\ pristine = FALSE
    /\ tw = NoSession
    /\ tr = NoSession
    /\ gate = NoGate
    /\ threads = <<>>
    /\ info = NoInfo

NextTrees ==
    \/ \E k \in BaseFactors : WriteTree(NameB, k)
    \/ \E k \in BaseFactors : ReflectRead(1, k)

SpecTrees == InitTrees /\ [][NextTrees]_vars

----------------------------------------------------------------------------
(* A tool that updates instances: it builds a value and writes it under a   *)
(* name, again and again, and reads instances back.                         *)

\* values of the bitfield structure within the widths of its members, and
\* scalars
RewriteValues ==
    {FlagsValue(1, v0, v1) : v0 \in {0, 2, 5}, v1 \in {0, 1}}
    \cup {U16Value(n) : n \in {7, 258}}
    \cup {StringValueOf(20, <<97>>)}

InitRewrite ==
    /\ context = Context(ReflectRegistry, TRUE)
    /\ adf = File(<<>>, <<>>)
    /\ tree = <<>>
    /\ disk = <<>>
    /\ mode = "mem"
    /\ origLen = 0
    /\ pristine = FALSE
    /\ tw = NoSession
    /\ tr = NoSession
    /\ gate = NoGate
    /\ threads = <<>>
    /\ info = NoInfo

\* the tool builds the value it writes next
Build(value) ==
    /\ mode = "mem"
    /\ tree # <<value>>
    /\ tree' = <<value>>
    /\ UNCHANGED <<fileVars, context, typedVars, gateVars, info>>

NextRewrite ==
    \/ \E value \in RewriteValues : Build(value)
    \/ \E k \in BaseFactors : WriteTree(NameA, k)
    \/ \E index \in 1..MaxInstances, k \in BaseFactors : ReflectRead(index, k)

SpecRewrite == InitRewrite /\ [][NextRewrite]_vars

----------------------------------------------------------------------------
(* Instance buffers of files of any producer: the buffers of ReflectInputs, *)
(* a pointer to a pointer, and the same buffers with another byte in an      *)
(* offset or count slot. A tool reads the instance.                          *)

DecodeRegistry == ReflectRegistry \o <<TPtrPtr>>

SlotBytes == {0, 2, 9, 16, 18, 24, 200}

DecodeInputs ==
    LET whole == ReflectInputs \cup {<<33, LE64(8) \o LE64(16) \o <<52, 18>>>>}
    IN  whole \cup {<<input[1], Overwrite(input[2], p, <<b>>)>> :
                       input \in {x \in whole : Len(x[2]) >= 16}, p \in {0, 8}, b \in SlotBytes}
              \cup {<<input[1], Overwrite(input[2], 0, <<b>>)>> :
                       input \in {x \in whole : Len(x[2]) >= 8}, b \in SlotBytes}

InitDecode ==
    /\ \E input \in DecodeInputs :
           adf = [File(<<>>, <<>>) EXCEPT
                     !.instances = <<Instance(1, NameA, input[1], input[2],
                                              InstanceAlignment)>>]
    /\ context = Context(DecodeRegistry, TRUE)
    /\ disk = <<>>
    /\ mode = "mem"
    /\ origLen = 0
    /\ pristine = FALSE
    /\ tree = <<>>
    /\ tw = NoSession
    /\ tr = NoSession
    /\ gate = NoGate
    /\ threads = <<>>
    /\ info = NoInfo

NextDecode == \E k \in BaseFactors : ReflectRead(1, k)

SpecDecode == InitDecode /\ [][NextDecode]_vars

----------------------------------------------------------------------------
(* The parameter list of the effc converter (eff_converter main.rs): the    *)
(* converter clones the params of the effect and interns every float it     *)
(* stores an index for. info holds the list, the list before the last call, *)
(* the value passed and the index returned.                                 *)

MaxParams == 3

\* f32 values: the numbers n and a NaN, the value that equals no value
Number(n) == [nan |-> FALSE, n |-> n]
NaN == [nan |-> TRUE, n |-> 0]
Floats == {Number(1), Number(2), Number(3), NaN}

\* PartialEq of f32
FloatEq(x, y) == ~x.nan /\ ~y.nan /\ x.n = y.n

\* Iterator::position, 0-based; -1 for None
RECURSIVE Position(_, _, _)
Position(params, value, i) ==
    IF i > Len(params) THEN -1
    ELSE IF FloatEq(params[i], value) THEN i - 1
    ELSE Position(params, value, i + 1)

\* the closure create_param: the list afterwards and the index returned
create_param(params, value) ==
    IF Position(params, value, 1) >= 0
    THEN [params |-> params, index |-> Position(params, value, 1)]
    ELSE [params |-> Append(params, value), index |-> Len(Append(params, value))]

InitParams ==
    /\ info \in {[kind |-> "params", params |-> list, before |-> list, value |-> NaN,
                  index |-> 0, calls |-> 0] :
                    list \in UNION {[1..n -> Floats] : n \in 0..2}}
    /\ adf = File(<<>>, <<>>)
    /\ disk = <<>>
    /\ mode = "mem"
    /\ origLen = 0
    /\ pristine = FALSE
    /\ context = Context(<<>>, TRUE)
    /\ tree = <<>>
    /\ tw = NoSession
    /\ tr = NoSession
    /\ gate = NoGate
    /\ threads = <<>>

CreateParam(value) ==
    /\ info.kind = "params"
    /\ Len(info.params) < MaxParams
    /\ info' = [info EXCEPT !.params = create_param(info.params, value).params,
                            !.before = info.params,
                            !.value = value,
                            !.index = create_param(info.params, value).index,
                            !.calls = 1]
    /\ UNCHANGED <<fileVars, reflVars, typedVars, gateVars>>

NextParams == \E value \in Floats : CreateParam(value)

SpecParams == InitParams /\ [][NextParams]_vars

----------------------------------------------------------------------------
(* Threads sharing one instance (an Arc<AdfInstance> held by several        *)
(* owners). Each thread runs one operation that needs the gate around the   *)
(* buffer (instance.buffer: Mutex<AVec<u8>>): read_instance, write_instance *)
(* or the instance write of an AdfFile serialization. The member loops of   *)
(* the reflective read and write and the copy of the buffer into the output *)
(* stream take one step per member, so that operations interleave wherever  *)
(* the gate lets them.                                                      *)

MaxThreads == 2

ThreadIds == 1..MaxThreads

\* a structure of two u16 members
TDuo ==
    Type(Structure, 4, 2, 44, <<68>>, Signed, 0, 0,
         <<Member(<<108>>, 12, 2, 0, 0, UninitializedValue),
           Member(<<104>>, 12, 2, 2, 0, UninitializedValue)>>,
         <<>>)

DuoValue(a, b) == CompoundValue(44, Structure, <<U16Value(a), U16Value(b)>>)

\* a value whose second member holds a u32 where the type has a u16
BrokenValue ==
    CompoundValue(44, Structure, <<U16Value(5), ScalarValue(12, Scalar, Unsigned, LE32(5))>>)

SharedBuffer == <<7, 0, 9, 0>>
GoodValues == {DuoValue(1, 2), DuoValue(3, 4)}

Operations ==
    {[kind |-> "read"], [kind |-> "save"]}
    \cup {[kind |-> "write", value |-> v] : v \in GoodValues \cup {BrokenValue}}

\* a thread: its operation, its position, the members or bytes it has read
\* from the buffer, and the number of members it has written
Thread(op) == [op |-> op, pc |-> "start", seen |-> <<>>, written |-> 0]

\* Mutex::try_lock succeeds on a free mutex that is not poisoned; with .ok()
\* and `let Ok(..)` a poisoned mutex counts as a failure
try_lock_unguarded(g) == ~g.poisoned

try_lock(g) == g.holder = 0 /\ ~g.poisoned

\* the guard is dropped: at the end of the operation, or by the unwinding of
\* a panic, which poisons the mutex
Unlock(g) == [g EXCEPT !.holder = 0]
Poison(g) == [holder |-> 0, poisoned |-> TRUE]

\* the shared instance and its type
Shared == adf.instances[1]
SharedType == get_type(context, Shared.type_hash)

InitGate ==
    /\ adf = [File(<<TU16, TDuo>>, <<>>) EXCEPT
                 !.instances = <<Instance(1, NameA, 44, SharedBuffer, InstanceAlignment)>>]
    /\ context = Context(<<TU16, TDuo>>, TRUE)
    /\ disk = <<>>
    /\ mode = "mem"
    /\ origLen = 0
    /\ pristine = FALSE
    /\ tree = <<>>
    /\ tw = NoSession
    /\ tr = NoSession
    /\ gate = NoGate
    /\ threads \in [ThreadIds -> {Thread(op) : op \in Operations}]
    /\ info = NoInfo

\* read_instance and write_instance up to the try_lock: a failure is todo!()
Acquire(t) ==
    /\ threads[t].pc = "start"
    /\ threads[t].op.kind \in {"read", "write"}
    /\ IF try_lock(gate)
       THEN /\ gate' = [gate EXCEPT !.holder = t]
            /\ threads' = [threads EXCEPT ![t].pc = "holding"]
       ELSE /\ gate' = gate
            /\ threads' = [threads EXCEPT ![t].pc = "panicked"]
    /\ UNCHANGED <<fileVars, reflVars, typedVars, info>>

\* impl BinWrite for AdfInstance up to the lock: Mutex::lock parks the thread
\* while another thread holds the mutex, and returns Err when it is poisoned
Lock(t) ==
    /\ threads[t].op.kind = "save"
    /\ \/ /\ threads[t].pc = "start"
          /\ gate.holder # 0
          /\ gate' = gate
          /\ threads' = [threads EXCEPT ![t].pc = "waiting"]
       \/ /\ threads[t].pc \in {"start", "waiting"}
          /\ gate.holder = 0
          /\ IF gate.poisoned
             THEN /\ gate' = gate
                  /\ threads' = [threads EXCEPT ![t].pc = "failed"]
             ELSE /\ gate' = [gate EXCEPT !.holder = t]
                  /\ threads' = [threads EXCEPT ![t].pc = "holding"]
    /\ UNCHANGED <<fileVars, reflVars, typedVars, info>>

\* one round of the member loop of the Structure case of read_value_by_info
ReadRound(t) ==
    /\ threads[t].pc = "holding"
    /\ threads[t].op.kind = "read"
    /\ Len(threads[t].seen) < Len(SharedType.members)
    /\ LET member == SharedType.members[Len(threads[t].seen) + 1]
           r == read_value_by_hash(context, member.type_hash, Shared.buffer,
                                   Shared.alignment, member.byte, member.bit)
       IN  IF r.st = "ok"
           THEN /\ threads' = [threads EXCEPT ![t].seen = Append(@, r.v)]
                /\ gate' = gate
           ELSE /\ threads' = [threads EXCEPT ![t].pc = "panicked"]
                /\ gate' = Poison(gate)
    /\ UNCHANGED <<fileVars, reflVars, typedVars, info>>

\* one round of the member loop of the Structure case of write_value_by_info;
\* Err(()) fails the expect of write_instance
WriteRound(t) ==
    /\ threads[t].pc = "holding"
    /\ threads[t].op.kind = "write"
    /\ threads[t].written < Len(SharedType.members)
    /\ LET i == threads[t].written + 1
           member == SharedType.members[i]
           value == threads[t].op.value.items[i]
           r == IF value.hash # member.type_hash THEN Panic
                ELSE write_value_by_hash(context, value, member.type_hash, Shared.buffer,
                                         Shared.alignment, member.byte, member.bit)
       IN  IF r.st = "ok"
           THEN /\ adf' = [adf EXCEPT !.instances[1].buffer = r.buf]
                /\ threads' = [threads EXCEPT ![t].written = i]
                /\ gate' = gate
           ELSE /\ adf' = adf
                /\ threads' = [threads EXCEPT ![t].pc = "panicked"]
                /\ gate' = Poison(gate)
    /\ UNCHANGED <<disk, mode, origLen, pristine, reflVars, typedVars, info>>

\* writer.write(&buffer): the bytes reach the output stream two at a time
CopyBytes(t) ==
    /\ threads[t].pc = "holding"
    /\ threads[t].op.kind = "save"
    /\ Len(threads[t].seen) < Len(Shared.buffer)
    /\ threads' = [threads EXCEPT
                      ![t].seen = @ \o SubSeq(Shared.buffer, Len(@) + 1, Len(@) + 2)]
    /\ UNCHANGED <<fileVars, reflVars, typedVars, gate, info>>

\* the operation of t has done all its accesses
Finished(t) ==
    IF threads[t].op.kind = "read" THEN Len(threads[t].seen) = Len(SharedType.members)
    ELSE IF threads[t].op.kind = "write" THEN threads[t].written = Len(SharedType.members)
    ELSE Len(threads[t].seen) = Len(Shared.buffer)

\* the operation returns and its guard is dropped
Release(t) ==
    /\ threads[t].pc = "holding"
    /\ Finished(t)
    /\ gate' = Unlock(gate)
    /\ threads' = [threads EXCEPT ![t].pc = "done"]
    /\ UNCHANGED <<fileVars, reflVars, typedVars, info>>

NextGate ==
    \/ \E t \in ThreadIds : Acquire(t)
    \/ \E t \in ThreadIds : Lock(t)
    \/ \E t \in ThreadIds : ReadRound(t)
    \/ \E t \in ThreadIds : WriteRound(t)
    \/ \E t \in ThreadIds : CopyBytes(t)
    \/ \E t \in ThreadIds : Release(t)

SpecGate == InitGate /\ [][NextGate]_vars

----------------------------------------------------------------------------
(* 32-bit words as pairs <<low half, high half>> of 16-bit numbers, and the *)
(* hash of mm_hashing (little32::hash, exported as hash_little32): Jenkins' *)
(* lookup3 hashlittle with initval 0. The module little32 is not part of    *)
(* the tree; the function is taken from its published definition.          *)

RECURSIVE BitXor(_, _)
BitXor(x, y) ==
    IF x = 0 THEN y
    ELSE IF y = 0 THEN x
    ELSE ((x + y) % 2) + 2 * BitXor(x \div 2, y \div 2)

Add32(x, y) ==
    <<(x[1] + y[1]) % 65536, (x[2] + y[2] + (x[1] + y[1]) \div 65536) % 65536>>

\* x - y = x + ~y + 1
Sub32(x, y) == Add32(Add32(x, <<65535 - y[1], 65535 - y[2]>>), <<1, 0>>)

Xor32(x, y) == <<BitXor(x[1], y[1]), BitXor(x[2], y[2])>>

\* rotation to the left by k bits, 0 <= k < 16
RotHalf(x, k) ==
    <<((x[1] * Pow2(k)) % 65536) + x[2] \div Pow2(16 - k),
      ((x[2] * Pow2(k)) % 65536) + x[1] \div Pow2(16 - k)>>

\* rot(x, k), 0 <= k < 32
Rot32(x, k) == IF k >= 16 THEN RotHalf(<<x[2], x[1]>>, k - 16) ELSE RotHalf(x, k)

\* the byte at 0-based index i of key, 0 behind its end
ByteAt(key, i) == IF i < Len(key) THEN key[i + 1] ELSE 0

\* the little-endian word at index i of key
WordAt(key, i) ==
    <<ByteAt(key, i) + 256 * ByteAt(key, i + 1),
      ByteAt(key, i + 2) + 256 * ByteAt(key, i + 3)>>

\* a += k[0]; b += k[1]; c += k[2] on the state s = <<a, b, c>>
AddBlock(s, key) ==
    <<Add32(s[1], WordAt(key, 0)), Add32(s[2], WordAt(key, 4)), Add32(s[3], WordAt(key, 8))>>

\* one line of mix(): x -= z; x ^= rot(z, k); z += y, on s = <<x, y, z>>; the
\* result is <<y, z, x>>, the order in which the next line names them
MixLine(s, k) ==
    <<s[2], Add32(s[3], s[2]), Xor32(Sub32(s[1], s[3]), Rot32(s[3], k))>>

\* mix(a, b, c)
Mix(s) == MixLine(MixLine(MixLine(MixLine(MixLine(MixLine(s, 4), 6), 8), 16), 19), 4)

\* one line of final(): x ^= y; x -= rot(y, k), on s = <<x, y, z>>; the result
\* is <<z, x, y>>, the order in which the next line names them
FinalLine(s, k) == <<s[3], Sub32(Xor32(s[1], s[2]), Rot32(s[2], k)), s[2]>>

\* final(a, b, c) on <<c, b, a>>: the value of c
Final(s) ==
    FinalLine(FinalLine(FinalLine(FinalLine(FinalLine(FinalLine(FinalLine(
        s, 14), 11), 25), 16), 4), 14), 24)[2]

\* the loop over the blocks of 12 bytes and the last block
RECURSIVE HashBlocks(_, _)
HashBlocks(s, key) ==
    IF Len(key) > 12 THEN HashBlocks(Mix(AddBlock(s, key)), SubSeq(key, 13, Len(key)))
    ELSE IF Len(key) = 0 THEN s[3]
    ELSE Final(<<AddBlock(s, key)[3], AddBlock(s, key)[2], AddBlock(s, key)[1]>>)

\* a = b = c = 0xdeadbeef + length
hashlittle(key) ==
    HashBlocks(<<Add32(<<48879, 57005>>, <<Len(key), 0>>),
                 Add32(<<48879, 57005>>, <<Len(key), 0>>),
                 Add32(<<48879, 57005>>, <<Len(key), 0>>)>>, key)

----------------------------------------------------------------------------
(* AdfTypeInfo of the typed codec (adf/derive.rs): NAME, HASH, SIZE and     *)
(* ALIGN of the scalar types and of the pointer, array and inline-array     *)
(* types built from them. Texts are byte strings.                           *)

\* the decimal text of a number, as concat!, stringify! and concatcp! give it
RECURSIVE Decimal(_)
Decimal(n) == IF n < 10 THEN <<48 + n>> ELSE Decimal(n \div 10) \o <<48 + (n % 10)>>

\* the decimal text of a 32-bit word
RECURSIVE DecimalWord(_)
DecimalWord(w) ==
    IF w[2] = 0 THEN Decimal(w[1])
    ELSE DecimalWord(<<((w[2] % 10) * 65536 + w[1]) \div 10, w[2] \div 10>>)
         \o <<48 + (((w[2] % 10) * 65536 + w[1]) % 10)>>

TypeInfo(kind, ty, n, name, hash, size, al) ==
    [kind |-> kind, ty |-> ty, n |-> n, NAME |-> name, HASH |-> hash, SIZE |-> size,
     ALIGN |-> al]

\* type_name!
type_name_inline(T, n) ==
    <<73, 65, 91>> \o T.NAME \o <<93, 52>> \o Decimal(T.SIZE * n) \o Decimal(T.ALIGN)
type_name_array(T) == <<65, 91>> \o T.NAME \o <<93, 51, 49, 54, 56>>
type_name_pointer(T) == T.NAME \o <<42, 50, 56, 56>>

\* type_hash! of an inline array without the length in the hashed text
type_hash_inline_unsized(T, n) ==
    hashlittle(DecimalWord(hashlittle(type_name_inline(T, n))) \o DecimalWord(T.HASH))

\* type_hash!
type_hash_inline(T, n) ==
    hashlittle(DecimalWord(hashlittle(type_name_inline(T, n))) \o DecimalWord(T.HASH)
               \o Decimal(n))
type_hash_array(T) ==
    hashlittle(DecimalWord(hashlittle(type_name_array(T))) \o DecimalWord(T.HASH))
type_hash_pointer(T) ==
    hashlittle(DecimalWord(hashlittle(type_name_pointer(T))) \o DecimalWord(T.HASH))
type_hash_common(name, tag, size, al) ==
    hashlittle(name \o Decimal(tag) \o Decimal(size) \o Decimal(al))

\* type_info!($ty, $n, $t, $s, $a) and type_info!(dyn $ty, ...), whose ALIGN is $s
Sized(ty, name, tag, size, al) ==
    TypeInfo("scalar", ty, 0, name, type_hash_common(name, tag, size, al), size, al)
Unsized(ty, name, tag, size, al) ==
    TypeInfo("scalar", ty, 0, name, type_hash_common(name, tag, size, al), size, size)

\* type_info!(&$ty), type_info!([$ty]) and type_info!([$ty; $l])
OptionArc(T) ==
    TypeInfo("pointer", T.ty, 0, type_name_pointer(T), type_hash_pointer(T), 8, 8)
ArcVec(T) ==
    TypeInfo("array", T.ty, 0, type_name_array(T), type_hash_array(T), 16, 8)
InlineOf(T, n) ==
    TypeInfo("inline", T.ty, n, type_name_array(T), type_hash_inline(T, n), T.SIZE * n,
             T.ALIGN)

\* the types of lines 127-137, each with pointer, array and inline arrays
ElementTypes ==
    <<Sized("u8", <<117, 105, 110, 116, 56>>, 0, 1, 1),
      Sized("i8", <<105, 110, 116, 56>>, 0, 1, 1),
      Sized("u16", <<117, 105, 110, 116, 49, 54>>, 0, 2, 2),
      Sized("i16", <<105, 110, 116, 49, 54>>, 0, 2, 2),
      Sized("u32", <<117, 105, 110, 116, 51, 50>>, 0, 4, 4),
      Sized("i32", <<105, 110, 116, 51, 50>>, 0, 4, 4),
      Sized("f32", <<102, 108, 111, 97, 116>>, 0, 4, 4),
      Sized("u64", <<117, 105, 110, 116, 54, 52>>, 0, 8, 8),
      Sized("i64", <<105, 110, 116, 54, 52>>, 0, 8, 8),
      Sized("f64", <<100, 111, 117, 98, 108, 101>>, 0, 8, 8),
      Sized("Arc<String>", <<83, 116, 114, 105, 110, 103>>, 5, 8, 8)>>

\* dyn Any: "void"
DynAny == Unsized("dyn Any", <<118, 111, 105, 100>>, 10, 16, 6)

\* the lengths of the inline arrays of type_info!
InlineLengths == 1..32

InitInfo ==
    /\ adf = File(<<>>, <<>>)
    /\ disk = <<>>
    /\ mode = "mem"
    /\ origLen = 0
    /\ pristine = FALSE
    /\ context = Context(<<>>, TRUE)
    /\ tree = <<>>
    /\ tw = NoSession
    /\ tr = NoSession
    /\ gate = NoGate
    /\ threads = <<>>
    /\ info = NoInfo

\* a use of <T as AdfTypeInfo>, one constant at a time
UseScalar(T) ==
    /\ info = NoInfo
    /\ info' = T
    /\ UNCHANGED <<fileVars, reflVars, typedVars, gateVars>>

UsePointer(T) ==
    /\ info = NoInfo
    /\ info' = OptionArc(T)
    /\ UNCHANGED <<fileVars, reflVars, typedVars, gateVars>>

UseArray(T) ==
    /\ info = NoInfo
    /\ info' = ArcVec(T)
    /\ UNCHANGED <<fileVars, reflVars, typedVars, gateVars>>

UseInline(T, n) ==
    /\ info = NoInfo
    /\ info' = InlineOf(T, n)
    /\ UNCHANGED <<fileVars, reflVars, typedVars, gateVars>>

\* the use is over
Forget ==
    /\ info # NoInfo
    /\ info' = NoInfo
    /\ UNCHANGED <<fileVars, reflVars, typedVars, gateVars>>

NextInfo ==
    \/ Forget
    \/ \E i \in DOMAIN ElementTypes : UseScalar(ElementTypes[i])
    \/ UseScalar(DynAny)
    \/ \E i \in DOMAIN ElementTypes : UsePointer(ElementTypes[i])
    \/ \E i \in DOMAIN ElementTypes : UseArray(ElementTypes[i])
    \/ \E i \in DOMAIN ElementTypes, n \in InlineLengths : UseInline(ElementTypes[i], n)

SpecInfo == InitInfo /\ [][NextInfo]_vars

----------------------------------------------------------------------------
(* Typed-value codec (adf/derive.rs). A document is a structure whose       *)
(* fields are Option<Arc<u32>> ("ptr"), Arc<Vec<u32>> ("vec") and           *)
(* Arc<String> ("str"); its fields are written in order by one writer       *)
(* session and then read in order by one reader session.                    *)

MaxFields == 3

FieldKinds == {"ptr", "vec", "str"}

\* the objects of the writing tool: key is the address of the Arc allocation
\* (0: None), v the u32 values of a pointee or vector, or the bytes of a string
Objects ==
    {[key |-> 0, kind |-> "ptr", v |-> <<>>],
     [key |-> 1, kind |-> "ptr", v |-> <<7>>],
     [key |-> 2, kind |-> "ptr", v |-> <<7>>],
     [key |-> 3, kind |-> "vec", v |-> <<1, 2>>],
     [key |-> 4, kind |-> "vec", v |-> <<>>],
     [key |-> 5, kind |-> "str", v |-> <<104, 105>>],
     [key |-> 6, kind |-> "str", v |-> <<>>]}

\* SIZE of a field's slot (ALIGN is 8 for all three)
SlotSize(kind) == IF kind = "vec" THEN 16 ELSE 8

RECURSIVE LayoutSize(_)
LayoutSize(layout) ==
    IF layout = <<>> THEN 0 ELSE SlotSize(layout[1]) + LayoutSize(Tail(layout))

Layouts == UNION {[1..n -> FieldKinds] : n \in 1..MaxFields}

\* AdfWriterReferences: tail is references.0, refs the map references.1 as a
\* set of [key, offset, type]
WriterSession(layout) ==
    [phase |-> "write", layout |-> layout, buf |-> <<>>, pos |-> 0,
     tail |-> LayoutSize(layout), refs |-> {}, slots |-> <<>>]

\* AdfReaderReferences: refs is the map as a set of [key, obj]; next is the
\* identity the next constructed object gets
ReaderSession == [phase |-> "read", pos |-> 0, refs |-> {}, reads |-> <<>>, next |-> 1]

Known(w, key) == \E e \in w.refs : e.key = key
RefOf(w, key) == CHOOSE e \in w.refs : e.key = key

WriteError(w) == [w EXCEPT !.phase = "error"]

\* impl AdfWrite for u64 / u32: align, then the bytes
WriteU64(w, n) == put(walign(w, 8), LE64(n))
WriteU32(w, n) == put(walign(w, 4), LE32(n))

RECURSIVE WriteU32s(_, _)
WriteU32s(w, values) ==
    IF values = <<>> THEN w ELSE WriteU32s(WriteU32(w, values[1]), Tail(values))

\* impl AdfWrite for Option<Arc<T>>, T = u32
WriteOptionArc(w, obj) ==
    IF obj.key = 0 THEN WriteU64(w, 0)
    ELSE IF Known(w, obj.key)
    THEN IF RefOf(w, obj.key).type = "ptr" THEN WriteU64(w, RefOf(w, obj.key).offset)
         ELSE WriteError(w)
    ELSE LET position == w.pos
             w1 == walign(seek(w, w.tail), Max(4, 16))
             offset == w1.pos
             w2 == pad(w1, 4)
             w3 == [w2 EXCEPT !.refs = @ \cup {[key |-> obj.key, offset |-> offset,
                                                type |-> "ptr"]},
                              !.tail = w2.pos]
             w4 == WriteU32(seek(w3, offset), obj.v[1])
         IN  WriteU64(seek(w4, position), offset)

\* a writer of Arc<Vec<T>> that takes the tail as the offset, unaligned
WriteArcVec_packed(w, obj) ==
    IF obj.v = <<>> THEN WriteU64(WriteU64(w, 0), 0)
    ELSE IF Known(w, obj.key)
    THEN IF RefOf(w, obj.key).type = "vec" THEN WriteU64(w, RefOf(w, obj.key).offset)
         ELSE WriteError(w)
    ELSE LET position == w.pos
             offset == w.tail
             count == Len(obj.v)
             w2 == pad(seek(w, offset), 4 * count)
             w3 == [w2 EXCEPT !.refs = @ \cup {[key |-> obj.key, offset |-> offset,
                                                type |-> "vec"]},
                              !.tail = w2.pos]
             w4 == WriteU32s(seek(w3, offset), obj.v)
         IN  WriteU64(WriteU64(seek(w4, position), offset), count)

\* impl AdfWrite for Arc<Vec<T>>, T = u32
WriteArcVec(w, obj) ==
    IF obj.v = <<>> THEN WriteU64(WriteU64(w, 0), 0)
    ELSE IF Known(w, obj.key)
    THEN IF RefOf(w, obj.key).type = "vec" THEN WriteU64(w, RefOf(w, obj.key).offset)
         ELSE WriteError(w)
    ELSE LET position == w.pos
             w1 == walign(seek(w, w.tail), Max(4, 16))
             offset == w1.pos
             count == Len(obj.v)
             w2 == pad(w1, 4 * count)
             w3 == [w2 EXCEPT !.refs = @ \cup {[key |-> obj.key, offset |-> offset,
                                                type |-> "vec"]},
                              !.tail = w2.pos]
             w4 == WriteU32s(seek(w3, offset), obj.v)
         IN  WriteU64(WriteU64(seek(w4, position), offset), count)

\* impl AdfWrite for Arc<String>
WriteArcString(w, obj) ==
    IF Known(w, obj.key)
    THEN IF RefOf(w, obj.key).type = "str" THEN WriteU64(w, RefOf(w, obj.key).offset)
         ELSE WriteError(w)
    ELSE LET offset == w.tail
             w1 == WriteU64(w, offset)
             position == w1.pos
             w2 == put(seek(w1, w.tail), obj.v \o <<0>>)
         IN  seek([w2 EXCEPT !.tail = w2.pos], position)

\* the record kept of one field write: the object, the position before the
\* write, the tail and the stream length before and after it
SlotRecord(w, w2, obj) ==
    [key |-> obj.key, kind |-> obj.kind, empty |-> (obj.v = <<>>), at |-> align(w.pos, 8),
     tail0 |-> w.tail, tail1 |-> w2.tail, len0 |-> Len(w.buf), len1 |-> Len(w2.buf)]

Emit(w, w2, obj) ==
    IF w2.phase = "error" THEN w2 ELSE [w2 EXCEPT !.slots = Append(@, SlotRecord(w, w2, obj))]

\* the kind of the next field to write, "" when all are written
NextToWrite ==
    IF tw.phase = "write" /\ Len(tw.slots) < Len(tw.layout)
    THEN tw.layout[Len(tw.slots) + 1] ELSE ""

InitTyped ==
    /\ tw \in {WriterSession(layout) : layout \in Layouts}
    /\ tr = ReaderSession
    /\ gate = NoGate
    /\ threads = <<>>
    /\ info = NoInfo
    /\ adf = File(<<>>, <<>>)
    /\ disk = <<>>
    /\ mode = "mem"
    /\ origLen = 0
    /\ pristine = FALSE
    /\ context = Context(<<>>, TRUE)
    /\ tree = <<>>

WritePointer(obj) ==
    /\ NextToWrite = "ptr" /\ obj.kind = "ptr"
    /\ tw' = Emit(tw, WriteOptionArc(tw, obj), obj)
    /\ UNCHANGED <<fileVars, reflVars, tr, gateVars, info>>

WriteVector(obj) ==
    /\ NextToWrite = "vec" /\ obj.kind = "vec"
    /\ tw' = Emit(tw, WriteArcVec(tw, obj), obj)
    /\ UNCHANGED <<fileVars, reflVars, tr, gateVars, info>>

WriteString(obj) ==
    /\ NextToWrite = "str" /\ obj.kind = "str"
    /\ tw' = Emit(tw, WriteArcString(tw, obj), obj)
    /\ UNCHANGED <<fileVars, reflVars, tr, gateVars, info>>

\* impl AdfRead for u64 / u32 / u8: align by a relative seek, then read_exact;
\* a u64 above 2^32 is reported as -1, a position beyond every stream
ReadU64(buf, pos) ==
    LET p == align(pos, 8)
    IN  IF ~Has(buf, p, 8) THEN Fail
        ELSE [ok |-> TRUE, pos |-> p + 8,
              v |-> IF U32(buf, p + 4) # 0 \/ buf[p + 4] >= 128 THEN -1 ELSE U32(buf, p)]

ReadU32(buf, pos) ==
    LET p == align(pos, 4)
    IN  IF ~Has(buf, p, 4) THEN Fail
        ELSE [ok |-> TRUE, pos |-> p + 4,
              v |-> IF buf[p + 4] >= 128 THEN -1 ELSE U32(buf, p)]

RECURSIVE ReadU32s(_, _, _)
ReadU32s(buf, pos, count) ==
    IF count = 0 THEN [ok |-> TRUE, v |-> <<>>, pos |-> pos]
    ELSE LET first == ReadU32(buf, pos)
         IN  IF ~first.ok THEN Fail
             ELSE LET rest == ReadU32s(buf, first.pos, count - 1)
                  IN  IF ~rest.ok THEN Fail
                      ELSE [ok |-> TRUE, v |-> <<first.v>> \o rest.v, pos |-> rest.pos]

Cached(r, key) == \E e \in r.refs : e.key = key
CachedAt(r, key) == (CHOOSE e \in r.refs : e.key = key).obj

\* HashMap::insert: the entry of an existing key is replaced
Insert(refs, key, obj) == {e \in refs : e.key # key} \cup {[key |-> key, obj |-> obj]}

ReadError(r) == [r EXCEPT !.phase = "error"]

\* the record kept of one field read: the offset found in the slot, the
\* object returned (id 0: None) and the offset its payload was read from
Returned(r, kind, offset, obj, pos) ==
    [r EXCEPT !.pos = pos,
              !.reads = Append(@, [kind |-> kind, offset |-> offset, obj |-> obj])]

NoObject == [id |-> 0, kind |-> "ptr", from |-> 0, v |-> <<>>]

\* a newly constructed object is recorded under the position after the slot
Construct(r, kind, offset, v, position) ==
    LET obj == [id |-> r.next, kind |-> kind, from |-> offset, v |-> v]
    IN  Returned([r EXCEPT !.refs = Insert(@, position, obj), !.next = @ + 1],
                 kind, offset, obj, position)

\* a cached object is returned when it has the requested type
Recall(r, kind, offset, position) ==
    IF CachedAt(r, offset).kind = kind
    THEN Returned(r, kind, offset, CachedAt(r, offset), position)
    ELSE ReadError(r)

\* impl AdfRead for Option<Arc<T>>, T = u32
ReadOptionArc(r, buf) ==
    LET slot == ReadU64(buf, r.pos)
    IN  IF ~slot.ok THEN ReadError(r)
        ELSE IF slot.v = 0 THEN Returned(r, "ptr", 0, NoObject, slot.pos)
        ELSE IF Cached(r, slot.v) THEN Recall(r, "ptr", slot.v, slot.pos)
        ELSE IF slot.v < 0 THEN ReadError(r)
        ELSE LET value == ReadU32(buf, slot.v)
             IN  IF ~value.ok THEN ReadError(r)
                 ELSE Construct(r, "ptr", slot.v, <<value.v>>, slot.pos)

\* impl AdfRead for Arc<Vec<T>>, T = u32
ReadArcVec(r, buf) ==
    LET slot == ReadU64(buf, r.pos)
        count == IF slot.ok THEN ReadU64(buf, slot.pos) ELSE Fail
    IN  IF ~slot.ok \/ ~count.ok THEN ReadError(r)
        ELSE IF slot.v = 0
        THEN Returned([r EXCEPT !.next = @ + 1], "vec", 0,
                      [id |-> r.next, kind |-> "vec", from |-> 0, v |-> <<>>], count.pos)
        ELSE IF Cached(r, slot.v) THEN Recall(r, "vec", slot.v, count.pos)
        ELSE IF slot.v < 0 \/ count.v < 0 \/ ~Has(buf, align(slot.v, 4), 4 * count.v)
        THEN ReadError(r)
        ELSE LET values == ReadU32s(buf, slot.v, count.v)
             IN  IF ~values.ok THEN ReadError(r)
                 ELSE Construct(r, "vec", slot.v, values.v, count.pos)

\* impl AdfRead for Arc<String>
ReadArcString(r, buf) ==
    LET slot == ReadU64(buf, r.pos)
    IN  IF ~slot.ok THEN ReadError(r)
        ELSE IF Cached(r, slot.v) THEN Recall(r, "str", slot.v, slot.pos)
        ELSE IF slot.v < 0 THEN ReadError(r)
        ELSE LET text == ReadNullString(buf, slot.v)
             IN  IF ~text.ok THEN ReadError(r)
                 ELSE Construct(r, "str", slot.v, from_utf8_lossy(text.v), slot.pos)

\* the kind of the next field to read, "" while the writer is not finished,
\* after a failure and when all fields are read
NextToRead ==
    IF tw.phase = "write" /\ Len(tw.slots) = Len(tw.layout)
       /\ tr.phase = "read" /\ Len(tr.reads) < Len(tw.layout)
    THEN tw.layout[Len(tr.reads) + 1] ELSE ""

ReadPointer ==
    /\ NextToRead = "ptr"
    /\ tr' = ReadOptionArc(tr, tw.buf)
    /\ UNCHANGED <<fileVars, reflVars, tw, gateVars, info>>

ReadVector ==
    /\ NextToRead = "vec"
    /\ tr' = ReadArcVec(tr, tw.buf)
    /\ UNCHANGED <<fileVars, reflVars, tw, gateVars, info>>

ReadString ==
    /\ NextToRead = "str"
    /\ tr' = ReadArcString(tr, tw.buf)
    /\ UNCHANGED <<fileVars, reflVars, tw, gateVars, info>>

NextTyped ==
    \/ \E obj \in Objects : WritePointer(obj)
    \/ \E obj \in Objects : WriteVector(obj)
    \/ \E obj \in Objects : WriteString(obj)
    \/ ReadPointer
    \/ ReadVector
    \/ ReadString

SpecTyped == InitTyped /\ [][NextTyped]_vars

----------------------------------------------------------------------------
(* Observations of a written file and comparison of in-memory files *)

DiskHeader == ReadHeader(disk).v

\* the buffer_offset field of the i-th (0-based) instance record of the file on disk
RecordBufferOffset(i) == U32(disk, DiskHeader.instance_offset + 24 * i + 8)

\* the names a write of f puts into the string pool
PooledStrings(f) ==
    {f.types[i].name : i \in DOMAIN f.types}
    \cup UNION {{f.types[i].members[j].name : j \in DOMAIN f.types[i].members} :
                   i \in DOMAIN f.types}
    \cup UNION {{f.types[i].enumerations[j].name : j \in DOMAIN f.types[i].enumerations} :
                   i \in DOMAIN f.types}
    \cup {f.instances[i].name : i \in DOMAIN f.instances}
    \cup {x.name : x \in ReferencedInstances(f)}

\* every length byte of the string table equals the length of its string
StringTableConsistent(buf) ==
    LET h == ReadHeader(buf).v
    IN  h.string_offset # 0 =>
            ReadStrings(buf, h.string_offset, 0, h.string_count,
                        h.string_offset + h.string_count, <<>>).ok

\* equality of instances as values: name, type hash, buffer bytes
SameInstance(x, y) ==
    x.name = y.name /\ x.type_hash = y.type_hash /\ x.buffer = y.buffer

SameValue(u, v) ==
    /\ u.tag = v.tag
    /\ u.tag = 1 => u.v = v.v
    /\ u.tag = 2 => SameInstance(u.inst, v.inst)

SameMember(m, n) ==
    /\ m.name = n.name /\ m.type_hash = n.type_hash /\ m.alignment = n.alignment
    /\ m.byte = n.byte /\ m.bit = n.bit
    /\ SameValue(m.value, n.value)

SameType(t, u) ==
    /\ [t EXCEPT !.members = <<>>] = [u EXCEPT !.members = <<>>]
    /\ Len(t.members) = Len(u.members)
    /\ \A j \in DOMAIN t.members : SameMember(t.members[j], u.members[j])

SameFile(f, g) ==
    /\ f.version = g.version
    /\ f.description = g.description
    /\ f.hashes = g.hashes
    /\ Len(f.types) = Len(g.types)
    /\ \A i \in DOMAIN f.types : SameType(f.types[i], g.types[i])
    /\ Len(f.instances) = Len(g.instances)
    /\ \A i \in DOMAIN f.instances : SameInstance(f.instances[i], g.instances[i])

----------------------------------------------------------------------------
(* Claims about the container codec *)

\* C1: container round-trip. For a file as returned by a parse (types, member
\* defaults, enum entries, instances, hashes, description), writing it and
\* parsing the output succeeds and yields the same in-memory file.
C1_RoundTrip ==
    (mode = "mem" /\ pristine) =>
        /\ ReadFile(WriteFile(adf)).ok
        /\ SameFile(ReadFile(WriteFile(adf)).v, adf)

\* C4: string-pool length limit. A write that completed had no pooled string
\* longer than 255 bytes, and every length byte of the string table it emitted
\* equals the length of the string that follows.
C4_StringPoolLimit ==
    mode = "disk" =>
        /\ \A str \in PooledStrings(adf) : Len(str) <= 255
        /\ StringTableConsistent(disk)

\* C6: instance name uniqueness. No two instances of the file's instance list
\* have the same name.
C6_UniqueNames ==
    mode = "mem" =>
        \A i, j \in DOMAIN adf.instances :
            i # j => adf.instances[i].name # adf.instances[j].name

\* C7: on-disk buffer alignment. Every instance record emitted by a write has
\* a buffer_offset that is a multiple of 128.
C7_BufferOffsetsAligned ==
    mode = "disk" =>
        \A i \in 0..(DiskHeader.instance_count - 1) :
            RecordBufferOffset(i) % InstanceAlignment = 0

\* C8: file size back-patch. The file_size field of a written file is the
\* number of bytes written, and re-serializing a parsed file gives a file of
\* the length of the original.
C8_FileSize ==
    /\ mode = "disk" => DiskHeader.file_size = Len(disk)
    /\ (mode = "mem" /\ pristine) =>
           /\ U32(WriteFile(adf), 40) = Len(WriteFile(adf))
           /\ Len(WriteFile(adf)) = origLen

----------------------------------------------------------------------------
(* Claims about the reflective engine *)

\* whether a value of the type holds a Pointer, Array or String
RECURSIVE HasIndirect(_, _)
HasIndirect(ctx, t) ==
    \/ t.primitive \in {Pointer, Array, String}
    \/ /\ t.primitive = Structure
       /\ \E j \in DOMAIN t.members :
              /\ HasType(ctx, t.members[j].type_hash)
              /\ HasIndirect(ctx, get_type(ctx, t.members[j].type_hash))
    \/ /\ t.primitive = InlineArray
       /\ HasType(ctx, t.element_type_hash)
       /\ HasIndirect(ctx, get_type(ctx, t.element_type_hash))

\* the instances of the file whose type the context knows
TypedInstances == {i \in DOMAIN adf.instances : HasType(context, adf.instances[i].type_hash)}

TypeOfInstance(i) == get_type(context, adf.instances[i].type_hash)

\* C5 as stated, for the instances made by new_instance (their buffer has the
\* alignment of the type): the buffer has exactly the size of the instance's
\* type, also after reflective writes of Pointer, Array and String values.
C5_BufferLengthIsTypeSize ==
    \A i \in TypedInstances :
        adf.instances[i].alignment # InstanceAlignment =>
            Len(adf.instances[i].buffer) = TypeOfInstance(i).size

\* C5, amended: the buffer of every instance is at least as long as the size of
\* its type; it has exactly that size when the type holds no Pointer, Array or
\* String, whose payloads the reflective write (and the producer of a parsed
\* file) append behind the fixed-size part.
C5_BufferLengthAtLeastTypeSize ==
    \A i \in TypedInstances :
        /\ Len(adf.instances[i].buffer) >= TypeOfInstance(i).size
        /\ ~HasIndirect(context, TypeOfInstance(i)) =>
               Len(adf.instances[i].buffer) = TypeOfInstance(i).size

\* a reflective write has grown the buffer of an instance made by new_instance
C5_Witness ==
    \E i \in TypedInstances :
        /\ adf.instances[i].name = NameB
        /\ adf.instances[i].alignment # InstanceAlignment
        /\ Len(adf.instances[i].buffer) > TypeOfInstance(i).size

\* the tree read from instance i with the buffer at k * alignment
ReadOf(i, k) == read_instance(context, adf, i, k)

\* that tree written into a fresh zeroed buffer of the type's size at
\* k2 * (alignment of the type)
RewriteOf(i, k, k2) ==
    write_value_by_hash(context, ReadOf(i, k).v, adf.instances[i].type_hash,
                        Zeros(TypeOfInstance(i).size), k2 * TypeOfInstance(i).alignment,
                        0, 0)

FlagRange(j) ==
    <<get_type(context, 42).members[j].bit,
      get_type(context, get_type(context, 42).members[j].type_hash).element_length>>

\* v_j & (2^width_j - 1) for member j of the written tree
FieldOf(j) == FromLE(tree[1].items[j].bytes) % Pow2(FlagRange(j)[2])

\* C10: bitfield packing. After the structure {f0: v0, f1: v1} whose members
\* occupy disjoint bit ranges of one unsigned word was written into a new
\* (zeroed) instance, the write has completed, the word is the sum over the
\* members of (v_j & (2^width_j - 1)) << shift_j (the bitwise OR of disjoint
\* fields), and reading back returns v_j & (2^width_j - 1) for every member.
C10_BitfieldPacking ==
    /\ mode = "mem"
    /\ adf.instances # <<>> =>
           /\ FromLE(adf.instances[1].buffer)
                  = FieldOf(1) * Pow2(FlagRange(1)[1]) + FieldOf(2) * Pow2(FlagRange(2)[1])
           /\ \A k \in BaseFactors :
                  /\ ReadOf(1, k).st = "ok"
                  /\ \A j \in 1..2 :
                         ReadOf(1, k).v.items[j].bytes
                             = ToLE(FieldOf(j), get_type(context, 42).size)

\* {f0: 5, f1: 9} over the ranges (0, 3) and (3, 5) of a u32 was written and
\* read back: the word is (5 & 0x7) | ((9 & 0x1F) << 3) = 77
C10_Witness ==
    /\ adf.instances # <<>>
    /\ get_type(context, 42).size = 4
    /\ FlagRange(1) = <<0, 3>> /\ FlagRange(2) = <<3, 5>>
    /\ adf.instances[1].buffer = <<77, 0, 0, 0>>
    /\ tree = <<FlagsValue(4, 5, 9)>>
    /\ ReadOf(1, 1).st = "ok" /\ ReadOf(1, 1).v = tree[1]

----------------------------------------------------------------------------
(* Typed-codec claims                                                       *)

\* the offset the writer stored in the slot of the i-th field written
StoredOffset(i) ==
    U32(tw.buf, tw.slots[i].at)

\* the i-th write is a repeated emission: an earlier field wrote the same
\* shared object (same allocation, same type, not None, not an empty vector)
Repeated(i) ==
    /\ tw.slots[i].key # 0
    /\ ~(tw.slots[i].kind = "vec" /\ tw.slots[i].empty)
    /\ \E h \in 1..(i - 1) : tw.slots[h].key = tw.slots[i].key

FirstEmission(i) ==
    CHOOSE h \in 1..i : tw.slots[h].key = tw.slots[i].key
                        /\ \A g \in 1..(h - 1) : tw.slots[g].key # tw.slots[i].key

\* C2: within one writer session a shared object is emitted once: a repeated
\* emission of the same object appends nothing to the tail and stores the
\* offset of the first emission.
C2_WriteSharing ==
    \A i \in DOMAIN tw.slots :
        Repeated(i) =>
            /\ tw.slots[i].tail1 = tw.slots[i].tail0
            /\ tw.slots[i].len1 = tw.slots[i].len0
            /\ StoredOffset(i) = StoredOffset(FirstEmission(i))

\* C3: within one reader session two slots that store the same non-zero
\* payload offset return the identical object, the table being keyed by the
\* payload offset.
C3_ReadSharing ==
    /\ \A i, j \in DOMAIN tr.reads :
           (/\ i < j
            /\ tr.reads[i].kind = tr.reads[j].kind
            /\ tr.reads[i].offset # 0
            /\ tr.reads[i].offset = tr.reads[j].offset)
           => tr.reads[i].obj.id = tr.reads[j].obj.id
    /\ \A i \in DOMAIN tr.reads :
           tr.reads[i].offset # 0 => tr.reads[i].obj.from = tr.reads[i].offset
    /\ \A e \in tr.refs : e.key = e.obj.from

----------------------------------------------------------------------------
(* Full-width bitfields *)

\* the instance the value read from instance 1 was written into
FullCopy == adf.instances[2]

\* C11: a Bitfield whose element_length is the bit count of its word (8, 16,
\* 32, 64; signed and unsigned) with shift 0 reads as the full stored word,
\* and writing that value into a zeroed slot stores it unchanged; neither
\* operation fails in the mask computation.
C11_FullWidthBitfield ==
    /\ mode # "failed"
    /\ tree # <<>> => tree[1].bytes = adf.instances[1].buffer
    /\ Len(adf.instances) = 2 => FullCopy.buffer = tree[1].bytes

----------------------------------------------------------------------------
(* Claims about references in files of other producers *)

\* the string table of the file on disk
DiskStrings == ReadStringTable(disk, DiskHeader).v

\* the string reference at p holds an index of the string table
Resolves(p) == U32(disk, p + 4) = 0 /\ U32(disk, p) < Len(DiskStrings)

\* the name the instance record at p refers to
NameOfRecord(p) == DiskStrings[U32(disk, p + 16) + 1]

\* the instance record at p stores the hash of its name
HashIntact(p) == U32(disk, p) = hash_little32(NameOfRecord(p))

\* the instance records whose name resolves and whose name hash is another one
MismatchedRecords ==
    {p \in Slots(disk, "name_hash") : Resolves(p + 16) /\ ~HashIntact(p)}

\* what a read of the file on disk returns, in the states that have a file
NameHashChecked ==
    /\ mode = "disk" =>
           \A p \in Slots(disk, "name_hash") : Resolves(p + 16) /\ HashIntact(p)
    /\ mode \in {"disk", "ext", "failed"} =>
           /\ ReadFile(disk).ok =>
                  \A p \in Slots(disk, "name_hash") : Resolves(p + 16) /\ HashIntact(p)
           /\ MismatchedRecords # {} =>
                  ~ReadFile(disk).ok /\ ReadFile(disk).err = "InvalidNameHash"

\* a step taken from a file with a mismatched record fails and leaves the
\* file in memory as it was
NoFileProduced ==
    (mode = "ext" /\ MismatchedRecords # {} /\ mode' # mode) =>
        (mode' = "failed" /\ adf' = adf)

\* C12: every instance record emitted by AdfFile write stores
\* hash_little32(name); a read succeeds only if every instance record stores
\* the hash of the name it resolves from the string pool, and a record with
\* another hash fails the read of the whole file with InvalidNameHash, no
\* AdfFile being produced.
C12_NameHashIntegrity == []NameHashChecked /\ [][NoFileProduced]_vars

\* a parse failed on a file with a record of another name hash
C12_Witness == mode = "failed" /\ MismatchedRecords # {}

\* the string references of type, member, enum and instance names that hold
\* no index of the string table
UnresolvedNames ==
    {p \in Slots(disk, "instance_name") \cup Slots(disk, "type_name")
           \cup Slots(disk, "member_name") \cup Slots(disk, "enum_name") : ~Resolves(p)}

\* the member default references whose 32-bit identity is the name hash of no
\* instance of the instance table
UnresolvedRefs ==
    {p \in Slots(disk, "instance_ref") :
        \A q \in Slots(disk, "name_hash") : hash_little32(NameOfRecord(q)) # U32(disk, p)}

\* the position of the default reference of member j of type i (1-based)
RefSlot(i, j) == MemberPos(TypePos(disk, DiskHeader, i - 1), j - 1) + 24

\* inst is a default instance that is not in the list instances
Placeholder(inst, instances) ==
    /\ inst.name = <<>> /\ inst.type_hash = 0 /\ inst.buffer = <<>>
    /\ \A i \in DOMAIN instances : instances[i].id # inst.id

\* C13: a member default of kind InstanceRef whose name hash matches no
\* instance never fails the read: it resolves to a default instance (empty
\* name, type_hash 0, empty buffer) that is not in the file's instance list.
\* A string index beyond the string table in a type, member, enum or instance
\* name fails the whole read with an invalid-identity error.
C13_PlaceholderOrFatal ==
    (mode \in {"disk", "ext", "failed"} /\ MismatchedRecords = {}) =>
        /\ UnresolvedNames # {} =>
               ~ReadFile(disk).ok /\ ReadFile(disk).err = "InvalidIdentity"
        /\ UnresolvedNames = {} =>
               /\ ReadFile(disk).ok
               /\ Len(ReadFile(disk).v.instances) = DiskHeader.instance_count
               /\ \A i \in DOMAIN ReadFile(disk).v.types :
                      \A j \in DOMAIN ReadFile(disk).v.types[i].members :
                          RefSlot(i, j) \in UnresolvedRefs =>
                              Placeholder(ReadFile(disk).v.types[i].members[j].value.inst,
                                          ReadFile(disk).v.instances)

\* the file in memory was parsed from a file with an unresolved default
\* reference and holds the placeholder
C13_Witness ==
    /\ mode = "mem" /\ pristine
    /\ \E i \in DOMAIN adf.types : \E j \in DOMAIN adf.types[i].members :
           /\ adf.types[i].members[j].value.tag = 2
           /\ Placeholder(adf.types[i].members[j].value.inst, adf.instances)

----------------------------------------------------------------------------
(* Claims about the buffer gate *)

\* the threads that are inside their accesses to the buffer
Holders == {t \in ThreadIds : threads[t].pc = "holding"}

\* the buffers between operations: the initial one and those of complete writes
WholeBuffers ==
    {SharedBuffer} \cup {LE16(a) \o LE16(b) : <<a, b>> \in {<<1, 2>>, <<3, 4>>}}

\* what a complete read or copy of a whole buffer returns
WholeViews ==
    WholeBuffers
    \cup {<<U16Value(U16(b, 0)), U16Value(U16(b, 2))>> : b \in WholeBuffers}

\* C14: at most one operation accesses the buffer of the instance at any
\* time, and it is the one that holds the gate; a buffer that a write has
\* only partly updated is seen by no other operation: what a finished read
\* or serialization has taken from the buffer is a buffer between writes.
C14_GateExclusion ==
    /\ Cardinality(Holders) <= 1
    /\ \A t \in Holders : gate.holder = t
    /\ \A t \in ThreadIds :
           (threads[t].op.kind \in {"read", "save"} /\ threads[t].pc = "done") =>
               threads[t].seen \in WholeViews
    /\ Shared.buffer \notin WholeBuffers =>
           \/ gate.poisoned
           \/ \E t \in Holders : threads[t].op.kind = "write"

\* a write has updated the first member only while another operation has
\* asked for the gate
C14_Witness ==
    \E t \in Holders : \E u \in ThreadIds \ {t} :
        /\ threads[t].op.kind = "write" /\ threads[t].written = 1
        /\ Shared.buffer \notin WholeBuffers
        /\ threads[u].pc \in {"panicked", "waiting"}

\* C15: no operation waits for the gate: an operation that finds the gate
\* held by another operation fails at once.
C15_NeverWaits == \A t \in ThreadIds : threads[t].pc # "waiting"

----------------------------------------------------------------------------
(* Claims about the type constants of the typed codec *)

\* the element type with the Rust name ty
Element(ty) == ElementTypes[CHOOSE i \in DOMAIN ElementTypes : ElementTypes[i].ty = ty]

C17_InlineArrayName ==
    info.kind = "inline" =>
        /\ info.NAME = type_name_inline(Element(info.ty), info.n)
        /\ info.NAME # ArcVec(Element(info.ty)).NAME

----------------------------------------------------------------------------
(* Claims about the primitives the reflective engine does not support *)

Unsupported == {Recursive, Deferred}

\* the type with this hash, or one of its members' types, is unsupported
Involves(ctx, type_hash) ==
    /\ HasType(ctx, type_hash)
    /\ \/ get_type(ctx, type_hash).primitive \in Unsupported
       \/ \E j \in DOMAIN get_type(ctx, type_hash).members :
              /\ HasType(ctx, get_type(ctx, type_hash).members[j].type_hash)
              /\ get_type(ctx, get_type(ctx, type_hash).members[j].type_hash).primitive
                     \in Unsupported

\* the instances that a write_instance of this run returned Ok for: in a
\* file parsed with one instance, every other one
Written == {i \in DOMAIN adf.instances : adf.instances[i].id # 1}

\* C18: the reflective engine fails on a type of primitive Recursive or
\* Deferred: no read returns a value for such a type, and no write of a
\* value of such a type is reported as done.
C18_UnsupportedFails ==
    /\ tree # <<>> => ~Involves(context, tree[1].hash)
    /\ \A i \in Written : ~Involves(context, adf.instances[i].type_hash)

----------------------------------------------------------------------------
(* The two pools of a write. A tool fills the instance list of a file        *)
(* (new_instance, or the public field: a second reference to an instance of   *)
(* the list, or the instance a member default refers to) and writes it.      *)

\* a second structure whose members repeat names of TPair and refer to the
\* same default instance
TTwin ==
    Type(Structure, 8, 4, 29, <<84, 119>>, Signed, 0, 0,
         <<Member(<<120>>, 13, 4, 0, 0, InstanceValue(DefaultTarget)),
           Member(<<84, 119>>, 13, 4, 4, 0, UninitializedValue)>>,
         <<>>)

PoolFiles ==
    {File(<<>>, <<>>), File(<<TPair, TEnum, TU32>>, <<100>>), File(<<TPair, TTwin>>, <<>>),
     File(<<TLong(255)>>, <<>>), File(<<TLong(256)>>, <<>>)}

InitPools ==
    /\ adf \in PoolFiles
    /\ disk = <<>>
    /\ mode = "mem"
    /\ origLen = 0
    /\ pristine = FALSE
    /\ context = Context(<<>>, TRUE)
    /\ tree = <<>>
    /\ tw = NoSession
    /\ tr = NoSession
    /\ gate = NoGate
    /\ threads = <<>>
    /\ info = NoInfo

\* adf.instances.push(inst): the list is a public field
Push(inst) ==
    /\ mode = "mem"
    /\ Len(adf.instances) <= MaxInstances
    /\ adf' = [adf EXCEPT !.instances = Append(@, inst)]
    /\ pristine' = FALSE
    /\ origLen' = 0
    /\ UNCHANGED <<disk, mode, reflVars, typedVars, gateVars, info>>

\* a second reference to an instance of the list
ShareInstance(index) == index \in DOMAIN adf.instances /\ Push(adf.instances[index])

\* a reference to an instance that a member default refers to
AdoptDefault == \E inst \in ReferencedInstances(adf) : Push(inst)

NextPools ==
    \/ \E name \in Names, type_def \in InstanceTypes : NewInstance(name, type_def)
    \/ \E index \in 1..(MaxInstances + 1) : ShareInstance(index)
    \/ AdoptDefault
    \/ Write

SpecPools == InitPools /\ [][NextPools]_vars

----------------------------------------------------------------------------
(* One parse, statement by statement: impl BinRead for AdfFile reads the    *)
(* header, the string table, the instance records one by one, the hashes    *)
(* and the types one by one. tr is the state of the parse: the phase, the   *)
(* stream position, the header and the tables read so far.                  *)

ParseSession ==
    [phase |-> "header", pos |-> 0, h |-> DefaultHeader, strings |-> <<>>,
     instances |-> <<>>, hashes |-> <<>>, types |-> <<>>, nid |-> 1]

InstanceA == Instance(1, NameA, 13, <<1, 2, 3, 4>>, InstanceAlignment)
InstanceB == Instance(2, NameB, 13, <<5, 6, 7, 8>>, InstanceAlignment)

\* files of 0 to MaxInstances instances
ParseInputs ==
    {[f EXCEPT !.instances = list] :
        f \in {File(<<>>, <<>>), File(<<TPair, TEnum, TU32>>, <<100>>),
               File(<<TPair, TTwin>>, <<>>)},
        list \in UNION {[1..n -> {InstanceA, InstanceB}] : n \in 0..MaxInstances}}

\* a written file as another producer may lay it out or damage it: the
\* buffer of the first instance in front of the table, a name index outside
\* the string table, another name hash
Variant(buf, kind) ==
    LET count == U32(buf, 8)
        table == U32(buf, 12)
    IN  IF count = 0 \/ kind = "own" THEN buf
        ELSE IF kind = "front" THEN Overwrite(buf, table + 8, LE32(0))
        ELSE IF kind = "index" THEN Overwrite(buf, table + 16, LE32(200))
        ELSE Overwrite(buf, table, LE32(1))

VariantKinds == {"own", "front", "index", "hash"}

InitParse ==
    /\ disk \in {Variant(WriteFile(f), kind) : f \in ParseInputs, kind \in VariantKinds}
    /\ mode = "ext"
    /\ tr = ParseSession
    /\ adf = File(<<>>, <<>>)
    /\ origLen = 0
    /\ pristine = FALSE
    /\ context = Context(<<>>, TRUE)
    /\ tree = <<>>
    /\ tw = NoSession
    /\ gate = NoGate
    /\ threads = <<>>
    /\ info = NoInfo

ParseFailed == [tr EXCEPT !.phase = "failed"]

\* AdfHeader::read_options
ParseHeader ==
    /\ tr.phase = "header"
    /\ LET r == ReadHeader(disk)
       IN  tr' = IF r.ok
                 THEN [tr EXCEPT !.phase = "strings", !.h = r.v,
                                 !.pos = 64 + Len(r.v.description) + 1]
                 ELSE ParseFailed
    /\ UNCHANGED <<fileVars, context, tree, tw, gateVars, info>>

\* the lengths and the strings
ParseStrings ==
    /\ tr.phase = "strings"
    /\ LET r == ReadStringTable(disk, tr.h)
       IN  tr' = IF r.ok
                 THEN [tr EXCEPT !.phase = "instances", !.strings = r.v,
                                 !.pos = IF tr.h.instance_offset # 0
                                         THEN tr.h.instance_offset ELSE @]
                 ELSE ParseFailed
    /\ UNCHANGED <<fileVars, context, tree, tw, gateVars, info>>

\* one AdfInstance::read_options of the loop
ParseInstance ==
    /\ tr.phase = "instances"
    /\ tr.h.instance_offset # 0
    /\ Len(tr.instances) < tr.h.instance_count
    /\ LET r == ReadInstance(disk, tr.pos, tr.strings, Len(tr.instances) + 1)
       IN  tr' = IF r.ok
                 THEN [tr EXCEPT !.instances = Append(@, r.v), !.pos = r.pos]
                 ELSE ParseFailed
    /\ UNCHANGED <<fileVars, context, tree, tw, gateVars, info>>

\* the instances are collected; the hashes
ParseHashes ==
    /\ tr.phase = "instances"
    /\ tr.h.instance_offset = 0 \/ Len(tr.instances) = tr.h.instance_count
    /\ LET r == ReadHashTable(disk, tr.h)
       IN  tr' = IF r.ok
                 THEN [tr EXCEPT !.phase = "types", !.hashes = r.v,
                                 !.nid = Len(tr.instances) + 1,
                                 !.pos = IF tr.h.type_offset # 0
                                         THEN tr.h.type_offset ELSE @]
                 ELSE ParseFailed
    /\ UNCHANGED <<fileVars, context, tree, tw, gateVars, info>>

\* one AdfType::read_options of the loop
ParseType ==
    /\ tr.phase = "types"
    /\ tr.h.type_offset # 0
    /\ Len(tr.types) < tr.h.type_count
    /\ LET r == ReadType(disk, tr.pos, tr.strings, tr.instances, tr.nid)
       IN  tr' = IF r.ok
                 THEN [tr EXCEPT !.types = Append(@, r.v), !.pos = r.pos, !.nid = r.nid]
                 ELSE ParseFailed
    /\ UNCHANGED <<fileVars, context, tree, tw, gateVars, info>>

\* Ok(AdfFile { .. })
ParseFinish ==
    /\ tr.phase = "types"
    /\ tr.h.type_offset = 0 \/ Len(tr.types) = tr.h.type_count
    /\ tr' = [tr EXCEPT !.phase = "done"]
    /\ adf' = [version |-> tr.h.version, instances |-> tr.instances, types |-> tr.types,
               hashes |-> tr.hashes, description |-> tr.h.description]
    /\ mode' = "mem"
    /\ UNCHANGED <<disk, origLen, pristine, context, tree, tw, gateVars, info>>

NextParse ==
    \/ ParseHeader
    \/ ParseStrings
    \/ ParseInstance
    \/ ParseHashes
    \/ ParseType
    \/ ParseFinish

SpecParse == InitParse /\ [][NextParse]_vars

----------------------------------------------------------------------------
(* Claims about the pools of a write *)

\* the instance pool when the instance records are written
WrittenPool(f) == WriteTypeSection(BeginFile(DefaultHeader, f.instances), f.types).w.instances

\* the name references a type emits, in order
TypeRefs(t) ==
    <<t.name>> \o
    (IF t.primitive = Structure THEN [j \in DOMAIN t.members |-> t.members[j].name]
     ELSE IF t.primitive = Enumeration
     THEN [j \in DOMAIN t.enumerations |-> t.enumerations[j].name]
     ELSE <<>>)

RECURSIVE TypesRefs(_, _)
TypesRefs(ts, i) == IF i > Len(ts) THEN <<>> ELSE TypeRefs(ts[i]) \o TypesRefs(ts, i + 1)

\* the name references of a write of f, in the order of their emission
NameRefs(f) ==
    TypesRefs(f.types, 1) \o [i \in DOMAIN WrittenPool(f) |-> WrittenPool(f)[i].name]

\* the positions in the written file of the references of the type at p
TypeRefSlots(buf, p) ==
    <<p + 16>> \o
    (IF U32(buf, p) = Structure THEN [j \in 1..U32(buf, p + 36) |-> MemberPos(p, j - 1)]
     ELSE IF U32(buf, p) = Enumeration
     THEN [j \in 1..U32(buf, p + 36) |-> EnumPos(p, j - 1)]
     ELSE <<>>)

RECURSIVE TypesRefSlots(_, _, _)
TypesRefSlots(buf, h, i) ==
    IF i >= h.type_count THEN <<>>
    ELSE TypeRefSlots(buf, TypePos(buf, h, i)) \o TypesRefSlots(buf, h, i + 1)

\* the positions of all name references of a written file, in that order
RefSlots(buf, h) ==
    TypesRefSlots(buf, h, 0) \o [i \in 1..h.instance_count |-> RecordPos(h, i - 1) + 16]

\* a writer whose string pool is pool
PoolWriter(pool) == [buf |-> <<>>, pos |-> 0, strings |-> pool, instances |-> <<>>]

RECURSIVE PoolFrom(_, _, _, _)
PoolFrom(pool, refs, i, k) ==
    IF i > k THEN pool
    ELSE PoolFrom(WriteStringRef(PoolWriter(pool), refs[i]).strings, refs, i + 1, k)

\* the string pool after the first k references of refs
PoolAt(refs, k) == PoolFrom(<<>>, refs, 1, k)

NoTwoEqual(pool) == \A i, j \in DOMAIN pool : pool[i] = pool[j] => i = j
Extends(pool, longer) ==
    Len(pool) <= Len(longer) /\ \A i \in DOMAIN pool : longer[i] = pool[i]
FitsLengthByte(pool) == \A i \in DOMAIN pool : Len(pool[i]) <= 255

\* the index written for the k-th reference is the position of its string in
\* the final pool, and below string_count
IndexRight(refs, slots, final, k) ==
    /\ U32(disk, slots[k] + 4) = 0
    /\ U32(disk, slots[k]) < DiskHeader.string_count
    /\ U32(disk, slots[k]) < Len(final)
    /\ final[U32(disk, slots[k]) + 1] = refs[k]

PoolRight(refs, slots, final) ==
    /\ Len(slots) = Len(refs)
    /\ DiskHeader.string_count = Len(final)
    /\ \A k \in DOMAIN refs :
           /\ NoTwoEqual(PoolAt(refs, k))
           /\ Extends(PoolAt(refs, k - 1), PoolAt(refs, k))
           /\ Extends(PoolAt(refs, k), final)
           /\ IndexRight(refs, slots, final, k)
    /\ FitsLengthByte(final) =>
           /\ ReadStringTable(disk, DiskHeader).ok
           /\ ReadStringTable(disk, DiskHeader).v = final

\* C19: during a write the string pool holds no two equal strings and only
\* grows at its end, and the index written for a name reference is the
\* position of that name in the final string table: it is below string_count
\* and, the strings fitting the length byte of the table (spec 4.C), the
\* table read from the file has the name at that index.
C19_StringPool ==
    mode = "disk" =>
        \A refs \in {NameRefs(adf)} :
            \A final \in {PoolAt(refs, Len(refs))} :
                PoolRight(refs, RefSlots(disk, DiskHeader), final)

\* a file was written in which a name was referenced more than once
C19_Witness ==
    /\ mode = "disk"
    /\ Len(NameRefs(adf)) > DiskHeader.string_count
    /\ DiskHeader.string_count > 1

\* the instance objects of a file: those of its list and those its member
\* defaults refer to, by reference identity
InstanceObjects(f) ==
    {f.instances[i].id : i \in DOMAIN f.instances} \cup {x.id : x \in ReferencedInstances(f)}

\* the buffers of the written file: the buffer_offset fields of its records
BufferOffsets == {U32(disk, p + 8) : p \in Slots(disk, "name_hash")}

\* C20: the instance table of a written file has one record and one buffer
\* for each distinct instance object of the instance list and the member
\* defaults, and instance_count is the number of these objects.
C20_InstancePool ==
    mode = "disk" =>
        /\ DiskHeader.instance_count = Cardinality(InstanceObjects(adf))
        /\ Cardinality(BufferOffsets) = Cardinality(InstanceObjects(adf))

----------------------------------------------------------------------------
(* Claims about the instance pool of a read *)

\* the instance pool of a read of the file on disk (empty when the tables
\* before it cannot be read)
DiskPool ==
    IF mode \in {"disk", "ext"} /\ ReadHeader(disk).ok
          /\ ReadStringTable(disk, DiskHeader).ok
          /\ ReadInstanceTable(disk, DiskHeader, DiskStrings).ok
    THEN ReadInstanceTable(disk, DiskHeader, DiskStrings).v
    ELSE <<>>

\* the name hashes of the instances of a pool
NameHashes(pool) == [i \in DOMAIN pool |-> hash_little32(pool[i].name)]

\* the instances of the pool whose name hash is that of the i-th one
SameIdentity(hashes, i) == {j \in DOMAIN hashes : hashes[j] = hashes[i]}

\* C21 (as stated): every instance of the pool of a read is what its own
\* identity, the hash of its name, resolves to, also when another instance of
\* the pool has the same name.
C21_LookupReturnsInstance ==
    \A pool \in {DiskPool} :
        \A hashes \in {NameHashes(pool)} :
            \A i \in DOMAIN pool :
                InstanceValueOf(pool, hashes[i], 0).id = pool[i].id

\* C21 (amended): the identity of an instance of the pool resolves to the
\* first instance of the pool with that name hash, which is the instance
\* itself when no earlier one has the same name hash.
C21_LookupReturnsFirst ==
    \A pool \in {DiskPool} :
        \A hashes \in {NameHashes(pool)} :
            \A i \in DOMAIN pool :
                \E j \in SameIdentity(hashes, i) :
                    /\ \A k \in SameIdentity(hashes, i) : j <= k
                    /\ InstanceValueOf(pool, hashes[i], 0).id = pool[j].id

\* a file was written whose pool has two instances with one name hash
C21_Witness ==
    \A pool \in {DiskPool} :
        \A hashes \in {NameHashes(pool)} :
            \E i \in DOMAIN pool : Cardinality(SameIdentity(hashes, i)) > 1

----------------------------------------------------------------------------
(* Claims about the instance table of a written file *)

\* the fields of the i-th (1-based) instance record of the file on disk
RecordNameHash(i) == U32(disk, RecordPos(DiskHeader, i - 1))
RecordTypeHash(i) == U32(disk, RecordPos(DiskHeader, i - 1) + 4)
RecordOffset(i) == U32(disk, RecordPos(DiskHeader, i - 1) + 8)
RecordSize(i) == U32(disk, RecordPos(DiskHeader, i - 1) + 12)
RecordNameIndex(i) == U32(disk, RecordPos(DiskHeader, i - 1) + 16)

\* the i-th record is the record of inst and its region holds the buffer
RecordOf(i, inst, final) ==
    /\ RecordNameHash(i) = hash_little32(inst.name)
    /\ RecordTypeHash(i) = inst.type_hash
    /\ RecordSize(i) = Len(inst.buffer)
    /\ U32(disk, RecordPos(DiskHeader, i - 1) + 20) = 0
    /\ RecordNameIndex(i) < Len(final)
    /\ final[RecordNameIndex(i) + 1] = inst.name
    /\ RecordOffset(i) + RecordSize(i) <= Len(disk)
    /\ SubSeq(disk, RecordOffset(i) + 1, RecordOffset(i) + RecordSize(i)) = inst.buffer

\* the regions lie behind the table, in instance order, before the strings
RegionsInOrder(count) ==
    /\ \A i \in 1..count :
           /\ RecordOffset(i) >= DiskHeader.instance_offset + 24 * count
           /\ RecordOffset(i) + RecordSize(i) <= DiskHeader.string_offset
    /\ \A i \in 1..(count - 1) : RecordOffset(i) + RecordSize(i) <= RecordOffset(i + 1)

TableRight(pool, final) ==
    /\ DiskHeader.instance_count = Len(pool)
    /\ \A i \in DOMAIN pool : RecordOf(i, pool[i], final)
    /\ RegionsInOrder(Len(pool))

\* C22: in a written file the i-th record of the instance table holds the
\* name hash, type hash, buffer offset, buffer size and name index of the
\* i-th pooled instance, the bytes of the region are its buffer, and the
\* regions follow the table in instance order, disjoint, before the string
\* table.
C22_BackPatchedTable ==
    mode = "disk" =>
        \A pool \in {WrittenPool(adf)}, refs \in {NameRefs(adf)} :
            \A final \in {PoolAt(refs, Len(refs))} : TableRight(pool, final)

\* a file with a listed instance and an instance only a member default
\* refers to was written
C22_Witness ==
    /\ mode = "disk"
    /\ Len(adf.instances) >= 1
    /\ Len(WrittenPool(adf)) > Len(adf.instances)
    /\ DiskHeader.instance_count >= 2

----------------------------------------------------------------------------
(* Claims about the payloads the reflective writer appends *)

\* the bytes of old from position from + 1 on are the same in new
KeptFrom(old, new, from) == \A i \in (from + 1)..Len(old) : new[i] = old[i]

\* off is the smallest multiple of alignment that is >= length
AlignedTail(off, length, alignment) ==
    off % alignment = 0 /\ off >= length /\ off - length < alignment

\* a Pointer or Array value v of count elements of type e was written into
\* the buffer old of a type of size bytes, giving new
PayloadRight(old, new, v, e, size, count) ==
    /\ AlignedTail(SlotValue(SubSeq(new, 1, 8)), Len(old), e.alignment)
    /\ Len(new) >= SlotValue(SubSeq(new, 1, 8)) + e.size * count
    /\ ~HasIndirect(context, e) => Len(new) = SlotValue(SubSeq(new, 1, 8)) + e.size * count
    /\ v.kind = Array => SlotValue(SubSeq(new, 9, 16)) = count
    /\ KeptFrom(old, new, size)

\* a String value v was written
StringRight(old, new, v) ==
    /\ SlotValue(SubSeq(new, 1, 8)) = Len(old)
    /\ new = SubSeq(new, 1, 8) \o SubSeq(old, 9, Len(old)) \o v.bytes \o <<0>>

AllocRight(old, new, v, t) ==
    IF v.kind = String THEN StringRight(old, new, v)
    ELSE IF v.kind = Pointer
    THEN PayloadRight(old, new, v, get_type(context, t.element_type_hash), 8, 1)
    ELSE IF v.kind = Array
    THEN PayloadRight(old, new, v, get_type(context, t.element_type_hash), 16,
                      Len(v.items))
    ELSE TRUE

\* a write_instance into the first instance returned Ok
Wrote == mode = "mem" /\ mode' = "mem" /\ tree' = tree /\ tree # <<>> /\ Len(adf.instances) = 1

\* C23: a reflective write of a Pointer or Array value into a buffer of
\* length L stores in the offset slot the smallest multiple of the element
\* type's alignment that is >= L (alignments are powers of two), grows the
\* buffer to that offset plus element size times element count, stores the
\* count of an array, and changes no byte below L outside the slot; a String
\* stores L in the slot and appends its bytes and one 0x00 at L.
C23_PayloadAllocation ==
    [][Wrote =>
          AllocRight(adf.instances[1].buffer, adf'.instances[1].buffer, tree[1],
                     get_type(context, tree[1].hash))]_vars

\* a pointer to a u32 was written into a buffer whose length was not a
\* multiple of 4: the slot holds 12, behind the leftover bytes
C23_Witness ==
    /\ mode = "mem"
    /\ adf.instances[1].type_hash = 31
    /\ SlotValue(SubSeq(adf.instances[1].buffer, 1, 8)) = 12
    /\ adf.instances[1].buffer[9] = 170
    /\ Len(adf.instances[1].buffer) = 16

----------------------------------------------------------------------------
(* Claims about the checks of the reflective writer *)

\* the value v has the variant of the type t, the number of items t declares,
\* and at every site below it the type hash the site expects
RECURSIVE Conforms(_, _, _)
Conforms(ctx, v, t) ==
    /\ v.kind = t.primitive
    /\ v.kind = Structure =>
           /\ Len(v.items) = Len(t.members)
           /\ \A j \in DOMAIN v.items :
                  /\ v.items[j].hash = t.members[j].type_hash
                  /\ HasType(ctx, v.items[j].hash)
                  /\ Conforms(ctx, v.items[j], get_type(ctx, v.items[j].hash))
    /\ v.kind = InlineArray => Len(v.items) = t.element_length
    /\ v.kind \in {Pointer, Array, InlineArray} =>
           \A j \in DOMAIN v.items :
               /\ v.items[j].hash = t.element_type_hash
               /\ HasType(ctx, v.items[j].hash)
               /\ Conforms(ctx, v.items[j], get_type(ctx, v.items[j].hash))

\* C24: a reflective write completes only for a tree in which every value has
\* the type hash its site expects (member type, element type), the variant of
\* the primitive of its type, and the declared number of members or
\* inline-array elements.
C24_WriteChecksTypes ==
    (mode = "mem" /\ tree # <<>> /\ Len(adf.instances) > 0) =>
        /\ HasType(context, tree[1].hash)
        /\ Conforms(context, tree[1], get_type(context, tree[1].hash))

\* a structure with a string and a pointer was written
C24_Witness ==
    /\ mode = "mem"
    /\ tree # <<>>
    /\ tree[1].hash = 28
    /\ Len(adf.instances) > 0
    /\ Len(adf.instances[1].buffer) > 24

----------------------------------------------------------------------------
(* Claims about the tail of a typed writer session *)

\* the object of the writing tool with the key of the i-th write
ObjectOf(i) == CHOOSE o \in Objects : o.key = tw.slots[i].key

\* the i-th write is the first emission of a pointer or a non-empty vector
FirstOf(i) ==
    /\ tw.slots[i].kind \in {"ptr", "vec"}
    /\ tw.slots[i].key # 0
    /\ ~tw.slots[i].empty
    /\ ~Repeated(i)

\* the payload block of a recorded reference: T = u32, SIZE 4
Block(e) ==
    LET o == CHOOSE o \in Objects : o.key = e.key
    IN  e.offset..(e.offset + 4 * Len(o.v) - 1)

\* C25: on the first emission of a pointer or a non-empty array the recorded
\* offset is the smallest multiple of max(ALIGN, 16) at or above the tail
\* before it, the tail afterwards is at least offset + SIZE * count, the tail
\* never decreases, the writer stands just past the slot afterwards, and the
\* payload blocks of distinct objects are disjoint.
C25_TailDiscipline ==
    tw # NoSession =>
        /\ \A i \in DOMAIN tw.slots :
               FirstOf(i) =>
                   \A e \in {RefOf(tw, tw.slots[i].key)} :
                       /\ e.offset % Max(4, 16) = 0
                       /\ e.offset >= tw.slots[i].tail0
                       /\ e.offset - Max(4, 16) < tw.slots[i].tail0
                       /\ tw.slots[i].tail1 >= e.offset + 4 * Len(ObjectOf(i).v)
                       /\ StoredOffset(i) = e.offset
                       /\ i = Len(tw.slots) => tw.pos = tw.slots[i].at + SlotSize(tw.slots[i].kind)
        /\ \A i \in DOMAIN tw.slots :
               /\ tw.slots[i].tail1 >= tw.slots[i].tail0
               /\ tw.slots[i].tail0 = IF i = 1 THEN LayoutSize(tw.layout)
                                      ELSE tw.slots[i - 1].tail1
               /\ i = Len(tw.slots) => tw.tail = tw.slots[i].tail1
        /\ \A e1, e2 \in tw.refs : e1.key # e2.key => Block(e1) \cap Block(e2) = {}

\* a vector emitted behind a string, at a tail that is no multiple of 16, and a
\* pointer emitted after it
C25_Witness ==
    /\ tw # NoSession
    /\ Len(tw.slots) = 3
    /\ FirstOf(2) /\ tw.slots[2].kind = "vec"
    /\ tw.slots[2].tail0 % 16 # 0
    /\ FirstOf(3) /\ tw.slots[3].kind = "ptr"

----------------------------------------------------------------------------
(* Claims about the slot of a typed array *)

\* the i-th write emitted a non-empty vector
VectorAt(i) == tw.slots[i].kind = "vec" /\ ~tw.slots[i].empty

\* C28: every emission of a non-empty Arc<Vec<T>>, first or repeated, leaves
\* offset and count in the 16-byte slot and advances the writer by 16 bytes
\* from the 8-aligned start of the slot; a typed read returns the vector with
\* its original length for every field.
C28_ArraySlotComplete ==
    tw # NoSession =>
        /\ \A i \in DOMAIN tw.slots :
               (VectorAt(i) /\ i = Len(tw.slots)) =>
                   /\ tw.pos = tw.slots[i].at + 16
                   /\ Has(tw.buf, tw.slots[i].at, 16)
                   /\ U32(tw.buf, tw.slots[i].at) = RefOf(tw, tw.slots[i].key).offset
                   /\ U32(tw.buf, tw.slots[i].at + 8) = Len(ObjectOf(i).v)
        /\ tr # NoSession =>
               \A i \in DOMAIN tr.reads :
                   (i \in DOMAIN tw.slots /\ VectorAt(i)) =>
                       Len(tr.reads[i].obj.v) = Len(ObjectOf(i).v)

----------------------------------------------------------------------------
(* Claims about the order of a parse *)

\* the string table of the file, complete
WholeStrings == ReadStringTable(disk, tr.h).v

\* the position of the i-th instance record
RecordAt(i) == tr.h.instance_offset + 24 * (i - 1)

\* the number of instance records the parse has to read
RecordsToRead == IF tr.h.instance_offset = 0 THEN 0 ELSE tr.h.instance_count

\* C26: the complete string table is read before any instance record and all
\* instance records before any type record, so names and default instances
\* are resolved against complete pools; reading one instance record moves the
\* stream by 24 bytes wherever its buffer lies.
C26_ReadOrdering ==
    tr.phase \in {"instances", "types", "done"} =>
        /\ tr.strings = WholeStrings
        /\ tr.h.string_offset # 0 => Len(tr.strings) = tr.h.string_count
        /\ tr.phase = "instances" /\ tr.h.instance_offset # 0 =>
               tr.pos = RecordAt(Len(tr.instances) + 1)
        /\ tr.phase \in {"types", "done"} => Len(tr.instances) = RecordsToRead
        /\ Len(tr.types) > 0 => Len(tr.instances) = RecordsToRead
        /\ \A i \in DOMAIN tr.instances :
               /\ U32(disk, RecordAt(i) + 16) < Len(tr.strings)
               /\ tr.instances[i].name = tr.strings[U32(disk, RecordAt(i) + 16) + 1]
               /\ hash_little32(tr.instances[i].name) = U32(disk, RecordAt(i))
        /\ tr.phase = "done" => adf = ReadFile(disk).v

\* a file of two instances and some types is parsed, the buffer of the first
\* instance lying in front of its record
C26_Witness ==
    /\ tr.phase = "done"
    /\ Len(adf.instances) = 2
    /\ Len(adf.types) > 0
    /\ U32(disk, RecordAt(1) + 8) < RecordAt(1)

----------------------------------------------------------------------------
(* Claims about repeated reflective writes *)

\* a write_instance of the built value has returned in this step
WriteReturned ==
    /\ mode = "mem" /\ mode' = "mem"
    /\ tree # <<>> /\ tree' = tree
    /\ adf' # adf

\* read_instance on the instance of the name and type of v returns v
ReadsBack(f, v) ==
    \A index \in {get_instance(f, NameA, get_type(context, v.hash))} :
        /\ index > 0
        /\ \A k \in BaseFactors :
               \A r \in {read_instance(context, f, index, k)} :
                   r.st = "ok" /\ r.v = v

\* C27: after write_instance(name, v) has returned, also into an instance
\* that an earlier call has written, read_instance on that instance returns
\* v (the bitfield values of the model lie within their widths); earlier
\* contents of the buffer do not show in the result.
C27_RepeatedWrite == [][WriteReturned => ReadsBack(adf', tree[1])]_vars

----------------------------------------------------------------------------
(* Claims about the end of a reflective read *)

\* the depth of the type graph below the type with this hash; every type of
\* the registries of the model refers to types in front of it or to scalars
RECURSIVE TypeDepth(_, _)
TypeDepth(ctx, type_hash) ==
    IF ~HasType(ctx, type_hash) THEN 0
    ELSE LET t == get_type(ctx, type_hash)
             below == IF t.primitive = Structure
                      THEN {TypeDepth(ctx, t.members[j].type_hash) : j \in DOMAIN t.members}
                      ELSE IF t.primitive \in {Pointer, Array, InlineArray}
                      THEN {TypeDepth(ctx, t.element_type_hash)}
                      ELSE {}
         IN  1 + (IF below = {} THEN 0 ELSE CHOOSE d \in below : \A e \in below : e <= d)

\* the depth of a value tree: one level for each nested read
RECURSIVE ValueDepth(_)
ValueDepth(v) ==
    LET below == {ValueDepth(v.items[j]) : j \in DOMAIN v.items}
    IN  1 + (IF below = {} THEN 0 ELSE CHOOSE d \in below : \A e \in below : e <= d)

\* the fixed-size parts met on the way to the value v of type t at offset lie
\* inside the buffer, and v has the elements the buffer announces
RECURSIVE Inside(_, _, _, _, _)
Inside(ctx, v, t, buffer, offset) ==
    /\ offset >= 0
    /\ offset + t.size <= Len(buffer)
    /\ t.primitive = Structure =>
           /\ Len(v.items) = Len(t.members)
           /\ \A j \in DOMAIN v.items :
                  Inside(ctx, v.items[j], get_type(ctx, t.members[j].type_hash), buffer,
                         offset + t.members[j].byte)
    /\ t.primitive = Pointer =>
           /\ Len(v.items) = 1
           /\ Inside(ctx, v.items[1], get_type(ctx, t.element_type_hash), buffer,
                     SlotValue(SubSeq(buffer, offset + 1, offset + 8)))
    /\ t.primitive = Array =>
           /\ Len(v.items) = SlotValue(SubSeq(buffer, offset + 9, offset + 16))
           /\ \A j \in DOMAIN v.items :
                  Inside(ctx, v.items[j], get_type(ctx, t.element_type_hash), buffer,
                         SlotValue(SubSeq(buffer, offset + 1, offset + 8))
                             + (j - 1) * get_type(ctx, t.element_type_hash).size)
    /\ t.primitive = InlineArray =>
           /\ Len(v.items) = t.element_length
           /\ \A j \in DOMAIN v.items :
                  Inside(ctx, v.items[j], get_type(ctx, t.element_type_hash), buffer,
                         offset + (j - 1) * get_type(ctx, t.element_type_hash).size)

\* C29: over an acyclic registry read_instance ends for every buffer, with a
\* value tree or with a failure; the nesting of the reads is at most the depth
\* of the type graph, and the fixed-size parts it decoded lie inside the buffer.
C29_ReadTerminates ==
    mode \in {"mem", "failed"} =>
        \A k \in BaseFactors :
            \A r \in {read_instance(context, adf, 1, k)} :
                /\ r.st \in {"ok", "panic", "err"}
                /\ r.st = "ok" =>
                       /\ ValueDepth(r.v) <= TypeDepth(context, adf.instances[1].type_hash)
                       /\ Inside(context, r.v, get_type(context, adf.instances[1].type_hash),
                                 adf.instances[1].buffer, 0)
                /\ mode = "failed" => r.st # "ok"
                /\ tree # <<>> => r = Got(tree[1])

\* a pointer to a pointer to a u16 was read: three nested reads
C29_Witness ==
    /\ mode = "mem"
    /\ tree # <<>>
    /\ tree[1].hash = 33
    /\ ValueDepth(tree[1]) = 3

----------------------------------------------------------------------------
(* Claims about the parameter list of the effc converter *)

\* the value is in the list
Present(params, value) == \E i \in DOMAIN params : FloatEq(params[i], value)

\* C30: each create_param(value) returns an index within the list after the
\* call whose entry equals the value; a value already present returns the
\* index of its first occurrence and leaves the list unchanged; a new value is
\* appended once.
C30_ParamInterning ==
    (info.kind = "params" /\ info.calls > 0) =>
        /\ info.index \in 0..(Len(info.params) - 1)
        /\ FloatEq(info.params[info.index + 1], info.value)
        /\ Present(info.before, info.value) =>
               /\ info.params = info.before
               /\ \A j \in 1..info.index : ~FloatEq(info.params[j], info.value)
        /\ ~Present(info.before, info.value) =>
               info.params = Append(info.before, info.value)

====
